---- MODULE Spec2Model ----
(***************************************************************************)
(* A model of the graph-ingestion core of vuln-graph-reasoning:            *)
(*   - the agent runtime executeAgent            (lib/agents/runtime)      *)
(*   - the enrichment plan inferAgentRelationships, its heuristic and LLM  *)
(*     tools                                     (lib/agents/graph-agent)  *)
(*   - mergeEdges and the ingestion coordinator ingestFindings             *)
(*                                               (lib/graph/ingest-findings)*)
(*                                                                         *)
(* JavaScript values are modelled as follows.  An optional value (a field  *)
(* that may be undefined) is a sequence of length 0 or 1: None is          *)
(* undefined, Some(v) is v.  Strings that the code builds by template      *)
(* literals are built here with \o, so that two different inputs that      *)
(* format to the same string are the same string here as well.  Wall-clock *)
(* fields of a step record (startedAt, finishedAt, durationMs) and the     *)
(* description/input fields are left out: no branch of the code reads them.*)
(***************************************************************************)
EXTENDS Integers, Sequences, FiniteSets, TLC

VARIABLES
    \* ---- one executeAgent call -------------------------------------------
    opts,         \* its AgentExecuteOptions: label, tools, plan, reducer, initialResult
    agentPc,      \* "idle" | "loop" | "break" | "returned" | "thrown"
    index,        \* 0-based index of the plan step the for-loop is at
    steps,        \* const steps: AgentExecutedStep[]
    state,        \* let state = initialResult
    agentReturn,  \* Some({result, steps}) once the call has returned
    hist,         \* history: one entry per loop iteration (what was invoked)
    \* ---- environment of the LLM tool ---------------------------------------
    env,          \* process.env: which of LITELLM_BASE_URL / LITELLM_API_KEY are set
    httpCalls,    \* history: number of fetch() calls issued so far
    \* ---- one ingestFindings call -------------------------------------------
    findings,     \* the batch passed to ingestFindings
    ingestPc,     \* "idle" | "infer" | "normalize" | "done"
    ingestResult, \* outcome of the last finished call
    callNo,       \* number of ingestFindings calls started
    store,        \* the graph store as the ingestion calls see it
    runs,         \* history: outcome of every finished ingestFindings call
    \* ---- one mergeEdges call -----------------------------------------------
    baseEdges,    \* argument baseEdges
    agentEdges,   \* argument agentEdges
    mergePc,      \* "args" | "done"
    mergeOut,     \* the value mergeEdges returned
    \* ---- one buildGraphPayload call ----------------------------------------
    buildInput,   \* argument findings
    buildPc,      \* "idle" | "args" | "done"
    payload,      \* Some({nodes, edges}) once the call has returned
    \* ---- one normalizeAgentEdges call --------------------------------------
    normEdges,    \* argument agentEdges (an array of suggestions)
    normNodes,    \* argument nodes (the nodes of a built payload)
    normPc,       \* "idle" | "args" | "done"
    normOut,      \* Some({edges, dropped}) once the call has returned
    \* ---- one heuristicSuggestions call --------------------------------------
    heurInput,    \* argument findings
    heurPc,       \* "idle" | "args" | "done"
    heurOut,      \* the suggestions the call returned
    \* ---- the persistence phase of ingestFindings and the Neo4j client -------
    neo4jConfigured, \* process.env holds the Neo4j URI, user name and password
    cachedDriver, \* let cachedDriver: 0 is null, n > 0 the n-th driver created
    drivers,      \* per driver created: "open" | "closed"
    ingests,      \* per ingestFindings call: where it is and what it holds
    graph,        \* the content of the graph store: nodes and relationships
    overlap       \* the process takes a second call while the first one runs

agentVars  == <<opts, agentPc, index, steps, state, agentReturn, hist>>
llmVars    == <<env, httpCalls>>
ingestVars == <<findings, ingestPc, ingestResult, callNo, store, runs>>
mergeVars  == <<baseEdges, agentEdges, mergePc, mergeOut>>
buildVars  == <<buildInput, buildPc, payload>>
normVars   == <<normEdges, normNodes, normPc, normOut>>
heurVars   == <<heurInput, heurPc, heurOut>>
persistVars == <<neo4jConfigured, cachedDriver, drivers, ingests, graph, overlap>>
vars == <<opts, agentPc, index, steps, state, agentReturn, hist, env, httpCalls,
          findings, ingestPc, ingestResult, callNo, store, runs,
          baseEdges, agentEdges, mergePc, mergeOut,
          buildInput, buildPc, payload, normEdges, normNodes, normPc, normOut,
          heurInput, heurPc, heurOut,
          neo4jConfigured, cachedDriver, drivers, ingests, graph, overlap>>

----------------------------------------------------------------------------
(* Bounds of the model *)

MaxPlan == 2

----------------------------------------------------------------------------
(* JavaScript values *)

None == <<>>
Some(v) == <<v>>
IsSome(o) == Len(o) = 1
Get(o) == o[1]

\* !x for an optional boolean: undefined and false are falsy.
Truthy(o) == o = Some(TRUE)

SeqsUpTo(S, n) == UNION {[1..k -> S] : k \in 0..n}

RECURSIVE SeqToSet(_)
SeqToSet(s) == IF s = <<>> THEN {} ELSE {Head(s)} \cup SeqToSet(Tail(s))

----------------------------------------------------------------------------
(* executeAgent: thrown values, tool results, step records *)

\* A value a tool (or the reducer) can throw: an Error with a message, a bare
\* string, or anything else.
ThrownError(m)  == [kind |-> "Error",  message |-> m]
ThrownString(s) == [kind |-> "string", message |-> s]
ThrownOther     == [kind |-> "other",  message |-> ""]
NoThrow         == [kind |-> "none",   message |-> ""]

\* error instanceof Error ? error.message
\*   : typeof error === "string" ? error : "Unknown agent error"
ErrorText(thrown) ==
    IF thrown.kind = "Error" THEN thrown.message
    ELSE IF thrown.kind = "string" THEN thrown.message
    ELSE "Unknown agent error"

\* What awaiting tool.run(...) can produce: a result {summary, data?}, or a
\* throw.  fetches counts the fetch() calls the run made.
\* A summary text with the number the template puts in it.
Summary(text, n) == <<text, n>>

ToolOk(summary, data, fetches) ==
    [ok |-> TRUE, summary |-> summary, data |-> data, thrown |-> NoThrow,
     fetches |-> fetches]
ToolThrew(thrown, fetches) ==
    [ok |-> FALSE, summary |-> Summary("", 0), data |-> None, thrown |-> thrown,
     fetches |-> fetches]

\* `${label}-${index + 1}`
StepId(label, i) == <<label, i + 1>>

\* The record pushed after tool.run resolved.
SuccessRecord(id, tool, result) ==
    [id |-> id, tool |-> tool, output |-> Some(result.summary),
     data |-> result.data, error |-> None]

\* The record pushed for a missing tool and in the catch block.
ErrorRecord(id, tool, message) ==
    [id |-> id, tool |-> tool, output |-> None, data |-> None,
     error |-> Some(message)]

\* What reducer(state, executed) can produce.
ReduceOk(v)        == [ok |-> TRUE,  value |-> v,    thrown |-> NoThrow]
ReduceThrew(thrown) == [ok |-> FALSE, value |-> <<>>, thrown |-> thrown]

----------------------------------------------------------------------------
(* Findings, graph edges *)

\* JS undefined standing where the type says string (an LLM edge with no type).
Undefined == "<undefined>"

\* string.toLowerCase() and string.trim(), on the strings of the model.
ToLowerCase(s) ==
    CASE s = "Finding"        -> "finding"
      [] s = "Finding "       -> "finding "
      [] s = "Team"           -> "team"
      [] s = "SHARED_SERVICE" -> "shared_service"
      [] s = "SHARED_CVE"     -> "shared_cve"
      [] s = "CO_OCCURS"      -> "co_occurs"
      [] s = "ROOT_CAUSE"     -> "root_cause"
      [] s = "OWNED_BY"       -> "owned_by"
      [] s = "Scan"           -> "scan"
      [] s = "Scanner"        -> "scanner"
      [] s = "Vulnerability"  -> "vulnerability"
      [] s = "Asset"          -> "asset"
      [] s = "Asset:image"    -> "asset:image"
      [] s = "Service"        -> "service"
      [] s = "Cluster"        -> "cluster"
      [] s = "Registry"       -> "registry"
      [] s = "Repository"     -> "repository"
      [] s = "SourceFile"     -> "sourcefile"
      [] s = "Package"        -> "package"
      [] OTHER                -> s
Trim(s) ==
    CASE s = "Finding " -> "Finding"
      [] s = "finding " -> "finding"
      [] OTHER          -> s

Ref(label, id) == [label |-> label, id |-> id]

\* A GraphEdge / AgentEdgeSuggestion.  properties is an optional property bag
\* (a function from property names to values), rationale an optional string.
Edge(type, from, to, properties, rationale) ==
    [type |-> type, from |-> from, to |-> to, properties |-> properties,
     rationale |-> rationale]

EmptyBag == [k \in {} |-> ""]

\* edge.properties ?? {}
BagOf(edge) == IF IsSome(edge.properties) THEN Get(edge.properties) ELSE EmptyBag

\* A FindingRecord, with the fields the enrichment reads.
Finding(id, scan, ts, service, cve) ==
    [finding_id |-> id, scan_id |-> scan, timestamp |-> ts,
     vulnerability |-> [cve_id |-> cve],
     asset |-> [service |-> service]]

\* if (x) for an optional string: undefined and "" are falsy.
TruthyString(o) == IsSome(o) /\ Get(o) # ""

\* new Date(timestamp).getTime(): timestamps of the model count half minutes.
GetTime(ts) == ts * 30000

\* Math.round(x / 60000) for a non-negative number of milliseconds.
RoundMinutes(ms) == (ms + 30000) \div 60000

Front(s) == SubSeq(s, 1, Len(s) - 1)
Last(s) == s[Len(s)]

RECURSIVE Concat(_)
Concat(ss) == IF ss = <<>> THEN <<>> ELSE Head(ss) \o Concat(Tail(ss))

\* The keys of a Map filled in the order of s: first occurrences, in order.
RECURSIVE FirstOccurrences(_)
FirstOccurrences(s) ==
    IF s = <<>> THEN <<>>
    ELSE LET r == FirstOccurrences(Front(s))
         IN  IF Last(s) \in SeqToSet(r) THEN r ELSE Append(r, Last(s))

----------------------------------------------------------------------------
(* graph-agent.ts: heuristicSuggestions *)

ServiceOf(f) == f.asset.service
CveOf(f) == f.vulnerability.cve_id

\* for i, for j > i: one element per pair, in loop order.
PairsInOrderNeighbours(list) == [i \in 1..(Len(list) - 1) |-> <<list[i], list[i + 1]>>]
PairsInOrder(list) ==
    Concat([i \in 1..Len(list) |->
              [k \in 1..(Len(list) - i) |-> <<list[i], list[i + k]>>]])

SharedServiceEdge(service, a, b) ==
    Edge("SHARED_SERVICE", Ref("Finding", a.finding_id), Ref("Finding", b.finding_id),
         Some([service |-> service, agent_source |-> "heuristic",
               provenance |-> "agent_heuristic"]),
         Some("Both findings impact service " \o service \o "."))

SharedCveEdge(cve, a, b) ==
    Edge("SHARED_CVE", Ref("Finding", a.finding_id), Ref("Finding", b.finding_id),
         Some([cve |-> cve, agent_source |-> "heuristic",
               provenance |-> "agent_heuristic"]),
         Some("Both findings reference " \o cve \o "."))

CoOccursEdge(scanId, current, next) ==
    Edge("CO_OCCURS", Ref("Finding", current.finding_id), Ref("Finding", next.finding_id),
         Some([scan_id |-> scanId,
               delta_minutes |-> RoundMinutes(GetTime(next.timestamp) - GetTime(current.timestamp)),
               agent_source |-> "heuristic", provenance |-> "agent_heuristic"]),
         Some("Findings discovered in scan " \o scanId \o " within the same run."))

\* [...list].sort((a, b) => time(a) - time(b)): a stable sort, ascending.
RECURSIVE InsertByTime(_, _)
InsertByTime(x, sorted) ==
    IF sorted = <<>> THEN <<x>>
    ELSE IF GetTime(Last(sorted).timestamp) <= GetTime(x.timestamp)
         THEN Append(sorted, x)
         ELSE Append(InsertByTime(x, Front(sorted)), Last(sorted))
SortByTimestampKeepsOrder(list) == list
RECURSIVE SortByTimestamp(_)
SortByTimestamp(list) ==
    IF list = <<>> THEN <<>>
    ELSE InsertByTime(Last(list), SortByTimestamp(Front(list)))

AdjacentPairs(list) ==
    [i \in 1..(Len(list) - 1) |-> <<list[i], list[i + 1]>>]

heuristicSuggestions(fs) ==
    LET withService == SelectSeq(fs, LAMBDA f : TruthyString(ServiceOf(f)))
        withCve     == SelectSeq(fs, LAMBDA f : TruthyString(CveOf(f)))
        services == FirstOccurrences([i \in 1..Len(withService) |-> Get(ServiceOf(withService[i]))])
        cves     == FirstOccurrences([i \in 1..Len(withCve) |-> Get(CveOf(withCve[i]))])
        scans    == FirstOccurrences([i \in 1..Len(fs) |-> fs[i].scan_id])
        byService(s) == SelectSeq(fs, LAMBDA f : TruthyString(ServiceOf(f)) /\ Get(ServiceOf(f)) = s)
        byCve(c)     == SelectSeq(fs, LAMBDA f : TruthyString(CveOf(f)) /\ Get(CveOf(f)) = c)
        byScan(s)    == SelectSeq(fs, LAMBDA f : f.scan_id = s)
        serviceEdges(s) ==
            LET ps == PairsInOrder(byService(s))
            IN  [n \in 1..Len(ps) |-> SharedServiceEdge(s, ps[n][1], ps[n][2])]
        cveEdges(c) ==
            LET ps == PairsInOrder(byCve(c))
            IN  [n \in 1..Len(ps) |-> SharedCveEdge(c, ps[n][1], ps[n][2])]
        scanEdges(s) ==
            LET ps == AdjacentPairs(SortByTimestamp(byScan(s)))
            IN  [n \in 1..Len(ps) |-> CoOccursEdge(s, ps[n][1], ps[n][2])]
    IN  Concat([n \in 1..Len(services) |-> serviceEdges(services[n])])
        \o Concat([n \in 1..Len(cves) |-> cveEdges(cves[n])])
        \o Concat([n \in 1..Len(scans) |-> scanEdges(scans[n])])

----------------------------------------------------------------------------
(* graph-agent.ts: edgeKey, mergeEdgeLists, the reducer of the enrichment plan *)

\* type.trim() throws a TypeError when the edge has no type.
EdgeKeyThrows(edge) == edge.type = Undefined

\* [type.trim().toLowerCase(), from.label.trim().toLowerCase(), from.id,
\*  to.label.trim().toLowerCase(), to.id].join("|")
edgeKey(type, from, to) ==
    ToLowerCase(Trim(type)) \o "|" \o ToLowerCase(Trim(from.label)) \o "|" \o from.id
        \o "|" \o ToLowerCase(Trim(to.label)) \o "|" \o to.id

KeyOfEdge(edge) == edgeKey(edge.type, edge.from, edge.to)

RECURSIVE MergeInto(_, _)
MergeInto(merged, incoming) ==
    IF incoming = <<>> THEN merged
    ELSE LET e == Head(incoming)
             seen == {KeyOfEdge(merged[i]) : i \in 1..Len(merged)}
         IN  IF KeyOfEdge(e) \in seen
             THEN MergeInto(merged, Tail(incoming))
             ELSE MergeInto(Append(merged, e), Tail(incoming))

\* Defined when no edge of either list makes edgeKey throw.
mergeEdgeLists(existing, incoming) ==
    IF incoming = <<>> THEN existing ELSE MergeInto(existing, incoming)

MergeEdgeListsThrows(existing, incoming) ==
    /\ incoming # <<>>
    /\ \E e \in SeqToSet(existing) \cup SeqToSet(incoming) : EdgeKeyThrows(e)

\* The reducer inferAgentRelationships passes to executeAgent.  Every data the
\* two tools return is an array.
EnrichReducer(st, executed) ==
    IF IsSome(executed.error) THEN ReduceOk(st)
    ELSE IF IsSome(executed.data)
         THEN IF MergeEdgeListsThrows(st, Get(executed.data))
              THEN ReduceThrew(ThrownError("Cannot read properties of undefined (reading 'trim')"))
              ELSE ReduceOk(mergeEdgeLists(st, Get(executed.data)))
         ELSE ReduceOk(st)

\* A reducer of some other caller: it folds the record into the state (here:
\* appends the record's id), or throws.
CallerReducer(st, executed) ==
    {ReduceOk(Append(st, executed.id)), ReduceThrew(ThrownError("reducer failed"))}

\* reducer(state, executed) of the running call.
Reduce(reducer, st, executed) ==
    IF reducer = "enrich" THEN {EnrichReducer(st, executed)}
    ELSE CallerReducer(st, executed)

----------------------------------------------------------------------------
(* graph-agent.ts: the two tools *)

HeuristicToolName == "heuristic-relationships"
LlmToolName == "llm-relationship-inference"

heuristicToolRun(context) ==
    LET edges == heuristicSuggestions(context.findings)
    IN  ToolOk(Summary("Generated n heuristic edge(s).", Len(edges)), Some(edges), 0)

\* The edges a model may answer with.
LlmEdgePool ==
    { Edge("ROOT_CAUSE", Ref("finding", "FG-1"), Ref("Finding", "FG-2"),
           Some([confidence |-> "high"]), Some("Same base image.")),
      Edge("shared_service", Ref("Finding", "FG-1"), Ref("Finding", "FG-2"),
           Some([provenance |-> "model_tag"]), None),
      Edge("OWNED_BY", Ref("Finding ", "FG-1"), Ref("Team", "payments"),
           None, Some("Owned by the payments team.")),
      Edge(Undefined, Ref("Finding", "FG-1"), Ref("Finding", "FG-2"),
           None, None) }

MaxLlmEdges == 1

\* What the endpoint can do with one request.
LlmResponses ==
    {[kind |-> k, edges |-> <<>>] :
        k \in {"network_error", "http_error", "body_not_json", "no_content",
               "content_not_json", "json_without_edges"}}
    \cup {[kind |-> "edges", edges |-> es] : es \in SeqsUpTo(LlmEdgePool, MaxLlmEdges)}

\* typeof v === "string" ? v : fallback, for a property of an optional bag.
StringPropOr(edge, key, fallback) ==
    IF key \in DOMAIN BagOf(edge) THEN BagOf(edge)[key] ELSE fallback

\* edges.map((edge) => ({...edge, properties: {...props, agent_source, provenance}}))
StampLlmEdge(edge) ==
    [edge EXCEPT !.properties =
        Some([agent_source |-> StringPropOr(edge, "agent_source", "llm"),
              provenance |-> StringPropOr(edge, "provenance", "agent_llm")]
             @@ BagOf(edge))]

\* if (!baseUrl || !apiKey) return {summary: ..., data: []};
LlmConfiguredAlways(e) == TRUE
LlmConfigured(e) == e.baseUrl /\ e.apiKey

\* llmTool.run for one answer of the endpoint.
llmToolRun(e, response) ==
    IF ~LlmConfigured(e)
    THEN ToolOk(Summary("LiteLLM not configured; skipped LLM enrichment step.", 0), Some(<<>>), 0)
    ELSE CASE response.kind = "network_error" ->
                ToolThrew(ThrownError("fetch failed"), 1)
           [] response.kind = "http_error" ->
                ToolThrew(ThrownError("LiteLLM request failed: 500 Internal Server Error"), 1)
           [] response.kind = "body_not_json" ->
                ToolThrew(ThrownError("Unexpected token < in JSON at position 0"), 1)
           [] response.kind = "no_content" ->
                ToolOk(Summary("LLM returned no content for relationships.", 0), Some(<<>>), 1)
           [] response.kind = "content_not_json" ->
                ToolThrew(ThrownError("Failed to parse LLM relationship JSON: Unexpected token"), 1)
           [] response.kind = "json_without_edges" ->
                ToolOk(Summary("LLM suggested n enriched relationship(s).", 0), Some(<<>>), 1)
           [] OTHER ->
                ToolOk(Summary("LLM suggested n enriched relationship(s).", Len(response.edges)),
                       Some([i \in 1..Len(response.edges) |-> StampLlmEdge(response.edges[i])]), 1)

\* A tool of some other caller: it returns (with or without data) or throws
\* an Error, a string or another value.
CallerToolRun ==
    {ToolOk(Summary("ok", 0), Some("d"), 0), ToolOk(Summary("ok", 0), None, 0)}
    \cup {ToolThrew(t, 0) :
            t \in {ThrownError("boom"), ThrownString("oops"), ThrownOther}}

\* Everything awaiting tool.run({input, context, state}) can produce.
ToolRun(name, context, e) ==
    IF name = HeuristicToolName THEN {heuristicToolRun(context)}
    ELSE IF name = LlmToolName THEN {llmToolRun(e, r) : r \in LlmResponses}
    ELSE CallerToolRun

----------------------------------------------------------------------------
(* runtime: executeAgent, one action per iteration of its for-loop *)

InLoop == agentPc = "loop" /\ index < Len(opts.plan)
CurStep == opts.plan[index + 1]

\* toolMap.get(step.tool) finds a tool.
ToolRegisteredAlways(name) == TRUE
ToolRegistered(name) == name \in opts.tools

\* if (!step.continueOnError) break;
ShouldBreakNever(step) == FALSE
ShouldBreakAlways(step) == TRUE
ShouldBreak(step) == ~Truthy(step.continueOnError)

\* The catch clause of the loop body catches whatever was thrown.
CatchesErrorsOnly(thrown) == thrown.kind = "Error"
Catches(thrown) == TRUE

\* The state after an iteration that failed: the reducer is not applied.
StateAfterFailureReduced(st, executed) == Append(st, executed.id)
StateAfterFailure(st, executed) == st

HistEntry(i, invoked, toolOk, reduced, before) ==
    [index |-> i, invoked |-> invoked, toolOk |-> toolOk, reduced |-> reduced,
     before |-> before]

\* break, or go on with the next plan step.
Advance(break) ==
    IF break
    THEN agentPc' = "break" /\ index' = index
    ELSE agentPc' = "loop" /\ index' = index + 1

\* if (!tool) { steps.push(error record); break or continue }
MissingTool ==
    /\ InLoop
    /\ ~ToolRegistered(CurStep.tool)
    /\ LET executed == ErrorRecord(StepId(opts.label, index), CurStep.tool,
                                   "Tool " \o CurStep.tool \o " not registered")
       IN  /\ steps' = Append(steps, executed)
           /\ state' = StateAfterFailure(state, executed)
    /\ hist' = Append(hist, HistEntry(index, FALSE, FALSE, "none", state))
    /\ Advance(ShouldBreak(CurStep))
    /\ UNCHANGED <<opts, agentReturn, llmVars, ingestVars, mergeVars, buildVars, normVars, heurVars, persistVars>>

\* try { result = await tool.run(...); steps.push(record); state = reducer(...) }
ToolReturns ==
    /\ InLoop
    /\ ToolRegistered(CurStep.tool)
    /\ \E result \in ToolRun(CurStep.tool, opts.context, env) :
         /\ result.ok
         /\ LET executed == SuccessRecord(StepId(opts.label, index), CurStep.tool, result)
            IN  \E red \in Reduce(opts.reducer, state, executed) :
                  /\ red.ok
                  /\ steps' = Append(steps, executed)
                  /\ state' = red.value
         /\ httpCalls' = httpCalls + result.fetches
    /\ hist' = Append(hist, HistEntry(index, TRUE, TRUE, "returned", state))
    /\ Advance(FALSE)
    /\ UNCHANGED <<opts, agentReturn, env, ingestVars, mergeVars, buildVars, normVars, heurVars, persistVars>>

\* try { await tool.run(...) throws } catch { steps.push(error record);
\* break or continue }
ToolThrows ==
    /\ InLoop
    /\ ToolRegistered(CurStep.tool)
    /\ \E result \in ToolRun(CurStep.tool, opts.context, env) :
         /\ ~result.ok
         /\ httpCalls' = httpCalls + result.fetches
         /\ hist' = Append(hist, HistEntry(index, TRUE, FALSE, "none", state))
         /\ IF Catches(result.thrown)
            THEN LET executed == ErrorRecord(StepId(opts.label, index), CurStep.tool,
                                             ErrorText(result.thrown))
                 IN  /\ steps' = Append(steps, executed)
                     /\ state' = StateAfterFailure(state, executed)
                     /\ Advance(ShouldBreak(CurStep))
            ELSE /\ agentPc' = "thrown"
                 /\ UNCHANGED <<steps, state, index>>
    /\ UNCHANGED <<opts, agentReturn, env, ingestVars, mergeVars, buildVars, normVars, heurVars, persistVars>>

\* try { result = await tool.run(...); steps.push(record); reducer(...) throws }
\* catch { steps.push(error record); break or continue }
ReducerThrows ==
    /\ InLoop
    /\ ToolRegistered(CurStep.tool)
    /\ \E result \in ToolRun(CurStep.tool, opts.context, env) :
         /\ result.ok
         /\ LET executed == SuccessRecord(StepId(opts.label, index), CurStep.tool, result)
            IN  \E red \in Reduce(opts.reducer, state, executed) :
                  /\ ~red.ok
                  /\ IF Catches(red.thrown)
                     THEN LET failed == ErrorRecord(StepId(opts.label, index), CurStep.tool,
                                                    ErrorText(red.thrown))
                          IN  /\ steps' = steps \o <<executed, failed>>
                              /\ state' = StateAfterFailure(state, failed)
                              /\ Advance(ShouldBreak(CurStep))
                     ELSE /\ agentPc' = "thrown"
                          /\ steps' = Append(steps, executed)
                          /\ UNCHANGED <<state, index>>
         /\ httpCalls' = httpCalls + result.fetches
    /\ hist' = Append(hist, HistEntry(index, TRUE, TRUE, "threw", state))
    /\ UNCHANGED <<opts, agentReturn, env, ingestVars, mergeVars, buildVars, normVars, heurVars, persistVars>>

\* return { result: state, steps };
AgentReturn ==
    /\ agentPc = "break" \/ (agentPc = "loop" /\ index = Len(opts.plan))
    /\ agentReturn' = Some([result |-> state, steps |-> steps])
    /\ agentPc' = "returned"
    /\ UNCHANGED <<opts, index, steps, state, hist, llmVars, ingestVars, mergeVars, buildVars, normVars, heurVars, persistVars>>

----------------------------------------------------------------------------
(* executeAgent called with any plan over two registered tools *)

RegisteredTools == {"toolA", "toolB"}

PlanSteps ==
    [tool : RegisteredTools \cup {"ghost"},
     continueOnError : {None, Some(TRUE), Some(FALSE)}]

InitialResults == {<<>>, << <<"seed", 0>> >>}

IdleIngest ==
    /\ findings = <<>>
    /\ ingestPc = "idle"
    /\ ingestResult = None
    /\ callNo = 0
    /\ store = [writes |-> 0, sessions |-> 0, resets |-> 0, runs |-> {}]
    /\ runs = <<>>

IdleMerge ==
    /\ baseEdges = <<>>
    /\ agentEdges = <<>>
    /\ mergePc = "idle"
    /\ mergeOut = None

IdleBuild ==
    /\ buildInput = <<>>
    /\ buildPc = "idle"
    /\ payload = None

IdleNormalize ==
    /\ normEdges = <<>>
    /\ normNodes = <<>>
    /\ normPc = "idle"
    /\ normOut = None

IdleHeuristics ==
    /\ heurInput = <<>>
    /\ heurPc = "idle"
    /\ heurOut = <<>>

\* No ingestFindings call has reached its persistence phase.
IdlePersist ==
    /\ neo4jConfigured = FALSE
    /\ cachedDriver = 0
    /\ drivers = <<>>
    /\ ingests = <<>>
    /\ graph = [nodes |-> {}, edges |-> {}]
    /\ overlap = FALSE

InitAgent ==
    /\ \E plan \in SeqsUpTo(PlanSteps, MaxPlan), init \in InitialResults :
         opts = [label |-> "agent", tools |-> RegisteredTools, plan |-> plan,
                 context |-> [findings |-> <<>>], reducer |-> "caller",
                 initialResult |-> init]
    /\ agentPc = "loop"
    /\ index = 0
    /\ steps = <<>>
    /\ state = opts.initialResult
    /\ agentReturn = None
    /\ hist = <<>>
    /\ env = [baseUrl |-> FALSE, apiKey |-> FALSE]
    /\ httpCalls = 0
    /\ IdleIngest
    /\ IdleMerge
    /\ IdleBuild
    /\ IdleNormalize
    /\ IdleHeuristics
    /\ IdlePersist

NextAgent ==
    \/ MissingTool
    \/ ToolReturns
    \/ ToolThrows
    \/ ReducerThrows
    \/ AgentReturn

SpecAgent == InitAgent /\ [][NextAgent]_vars

----------------------------------------------------------------------------
(* ingest-findings.ts: mergeEdges *)

\* build-graph.ts createEdge(type, from, to): no property bag, no rationale.
createEdge(type, from, to) ==
    Edge(type, Ref(from.label, from.id), Ref(to.label, to.id), None, None)

\* `${edge.type}|${edge.from.label}|${edge.from.id}|${edge.to.label}|${edge.to.id}`
MergeKey(edge) ==
    edge.type \o "|" \o edge.from.label \o "|" \o edge.from.id
        \o "|" \o edge.to.label \o "|" \o edge.to.id

\* if (source === "agent") { rationale, provenance = "agent", enriched = true }
AgentProps(edge, props) ==
    LET withRationale ==
            IF TruthyString(edge.rationale)
            THEN ("rationale" :> Get(edge.rationale)) @@ props
            ELSE props
    IN  [provenance |-> "agent", enriched |-> TRUE] @@ withRationale

\* props.provenance = props.provenance ?? "base";
\* props.enriched = props.enriched ?? false;
DefaultPropsMissing(props) == props
DefaultProps(props) == props @@ [provenance |-> "base", enriched |-> FALSE]

\* The record addEdge pushes for an edge it has not seen.
MergedRecord(edge, source) ==
    LET props == IF source = "agent" THEN AgentProps(edge, BagOf(edge)) ELSE BagOf(edge)
    IN  [type |-> edge.type, from |-> edge.from, to |-> edge.to,
         rationale |-> edge.rationale, fromId |-> edge.from.id, toId |-> edge.to.id,
         properties |-> Some(DefaultProps(props))]

\* addEdge(edge, source) on the accumulators of mergeEdges.
addEdge(acc, edge, source) ==
    IF MergeKey(edge) \in acc.seen THEN acc
    ELSE LET record == MergedRecord(edge, source)
         IN  [seen |-> acc.seen \cup {MergeKey(edge)},
              merged |-> Append(acc.merged, record),
              agentApplied |-> IF source = "agent" THEN Append(acc.agentApplied, record)
                               ELSE acc.agentApplied,
              baseCount |-> IF source = "agent" THEN acc.baseCount ELSE acc.baseCount + 1,
              agentCount |-> IF source = "agent" THEN acc.agentCount + 1 ELSE acc.agentCount]

RECURSIVE AddAll(_, _, _)
AddAll(acc, edges, source) ==
    IF edges = <<>> THEN acc
    ELSE AddAll(addEdge(acc, Head(edges), source), Tail(edges), source)

mergeEdges(base, agent) ==
    LET start == [seen |-> {}, merged |-> <<>>, agentApplied |-> <<>>,
                  baseCount |-> 0, agentCount |-> 0]
        acc == AddAll(AddAll(start, base, "base"), agent, "agent")
    IN  [edges |-> acc.merged,
         counts |-> [base |-> acc.baseCount, agent |-> acc.agentCount],
         agentApplied |-> acc.agentApplied]

\* Base edges as buildGraphPayload makes them (createEdge of two built nodes).
\* Ids are strings of the findings file; two of them hold a "|".
BaseEdgePool ==
    { createEdge("REPORTS", Ref("Finding", "FG-1"), Ref("Vulnerability", "CVE-1")),
      createEdge("FOUND_ON", Ref("Finding", "FG-1"), Ref("Asset", "image:app")),
      createEdge("PART_OF_SCAN", Ref("Finding", "F|Scan|x"), Ref("Scan", "s")),
      createEdge("PART_OF_SCAN", Ref("Finding", "F"), Ref("Scan", "x|Scan|s")) }

\* Agent suggestions after endpoint resolution: a heuristic edge, and stamped
\* LLM edges (one on the key of a base edge, one with a tag of the model's).
AgentEdgePool ==
    { SharedServiceEdge("api", Finding("FG-1", "s", 0, Some("api"), None),
                               Finding("FG-2", "s", 20, Some("api"), None)),
      StampLlmEdge(Edge("ROOT_CAUSE", Ref("Finding", "FG-1"), Ref("Finding", "FG-2"),
                        Some([confidence |-> "high"]), Some("Same base image."))),
      StampLlmEdge(Edge("REPORTS", Ref("Finding", "FG-1"), Ref("Vulnerability", "CVE-1"),
                        None, Some("Confirmed by the model."))),
      StampLlmEdge(Edge("shared_service", Ref("Finding", "FG-1"), Ref("Finding", "FG-2"),
                        Some([provenance |-> "model_tag"]), None)) }

MaxBaseEdges == 2
MaxAgentEdges == 2

IdleAgent ==
    /\ opts = [label |-> "agent", tools |-> {}, plan |-> <<>>,
               context |-> [findings |-> <<>>], reducer |-> "caller",
               initialResult |-> <<>>]
    /\ agentPc = "idle"
    /\ index = 0
    /\ steps = <<>>
    /\ state = <<>>
    /\ agentReturn = None
    /\ hist = <<>>

InitMerge ==
    /\ baseEdges \in SeqsUpTo(BaseEdgePool, MaxBaseEdges)
    /\ agentEdges \in SeqsUpTo(AgentEdgePool, MaxAgentEdges)
    /\ mergePc = "args"
    /\ mergeOut = None
    /\ IdleAgent
    /\ env = [baseUrl |-> FALSE, apiKey |-> FALSE]
    /\ httpCalls = 0
    /\ IdleIngest
    /\ IdleBuild
    /\ IdleNormalize
    /\ IdleHeuristics
    /\ IdlePersist

MergeCall ==
    /\ mergePc = "args"
    /\ mergeOut' = Some(mergeEdges(baseEdges, agentEdges))
    /\ mergePc' = "done"
    /\ UNCHANGED <<baseEdges, agentEdges, agentVars, llmVars, ingestVars, buildVars, normVars, heurVars, persistVars>>

NextMerge == MergeCall

SpecMerge == InitMerge /\ [][NextMerge]_vars

----------------------------------------------------------------------------
(* graph-agent.ts: inferAgentRelationships; ingest-findings.ts: ingestFindings *)

\* The options inferAgentRelationships(findings) hands to executeAgent.
EnrichmentOptionsLlmFirst(fs) ==
    [label |-> "graph-enrichment",
     tools |-> {HeuristicToolName, LlmToolName},
     plan |-> << [tool |-> LlmToolName, continueOnError |-> None],
                 [tool |-> HeuristicToolName, continueOnError |-> None] >>,
     context |-> [findings |-> fs],
     reducer |-> "enrich",
     initialResult |-> <<>>]
EnrichmentOptions(fs) ==
    [label |-> "graph-enrichment",
     tools |-> {HeuristicToolName, LlmToolName},
     plan |-> << [tool |-> HeuristicToolName, continueOnError |-> None],
                 [tool |-> LlmToolName, continueOnError |-> Some(TRUE)] >>,
     context |-> [findings |-> fs],
     reducer |-> "enrich",
     initialResult |-> <<>>]

\* return { edges: result, steps };
InferenceOf(ret) == [edges |-> ret.result, steps |-> ret.steps]

\* if (findings.length === 0) throw new Error("No findings provided for ingestion");
RejectsEmptyNever(batch) == FALSE
RejectsEmpty(batch) == Len(batch) = 0

\* Findings of a scanner file.  The file may report a finding id twice.
FindingPool ==
    { Finding("FG-1", "scan-1", 0, Some("api"), Some("CVE-1")),
      Finding("FG-2", "scan-1", 3, Some("api"), None),
      Finding("FG-1", "scan-1", 5, None, Some("CVE-1")) }

MaxFindings == 3
MaxCalls == 2

Batches == SeqsUpTo(FindingPool, MaxFindings)

\* The process before its first ingestFindings call.  LITELLM_BASE_URL and
\* LITELLM_API_KEY are set or not.
InitIngest ==
    /\ env \in [baseUrl : BOOLEAN, apiKey : BOOLEAN]
    /\ httpCalls = 0
    /\ IdleAgent
    /\ IdleIngest
    /\ IdleMerge
    /\ IdleBuild
    /\ IdleNormalize
    /\ IdleHeuristics
    /\ IdlePersist

\* No ingestFindings call is running.
IngestIdle == ingestPc \in {"idle", "thrown"}

\* The first call takes any batch; a later call is a rerun of the same batch.
BatchesOfCall == IF callNo = 0 THEN Batches ELSE {findings}

\* What the call finds when it starts (history, for the properties).
CallStart == [store |-> store, httpCalls |-> httpCalls]

\* ingestFindings([]): the length check throws; nothing else runs.
IngestRejects ==
    /\ IngestIdle
    /\ callNo < MaxCalls
    /\ \E batch \in BatchesOfCall :
         /\ RejectsEmpty(batch)
         /\ findings' = batch
    /\ callNo' = callNo + 1
    /\ runs' = Append(runs, CallStart)
    /\ ingestPc' = "thrown"
    /\ ingestResult' = Some(ThrownError("No findings provided for ingestion"))
    /\ opts' = [label |-> "agent", tools |-> {}, plan |-> <<>>,
                context |-> [findings |-> <<>>], reducer |-> "caller",
                initialResult |-> <<>>]
    /\ agentPc' = "idle"
    /\ index' = 0
    /\ steps' = <<>>
    /\ state' = <<>>
    /\ agentReturn' = None
    /\ hist' = <<>>
    /\ UNCHANGED <<store, llmVars, mergeVars, buildVars, normVars, heurVars, persistVars>>

\* ingestFindings(findings) up to its first await: buildGraphPayload(findings)
\* (pure), then inferAgentRelationships(findings) enters executeAgent.
IngestStarts ==
    /\ IngestIdle
    /\ callNo < MaxCalls
    /\ \E batch \in BatchesOfCall :
         /\ ~RejectsEmpty(batch)
         /\ findings' = batch
         /\ opts' = EnrichmentOptions(batch)
    /\ callNo' = callNo + 1
    /\ runs' = Append(runs, CallStart)
    /\ ingestPc' = "enrich"
    /\ ingestResult' = None
    /\ agentPc' = "loop"
    /\ index' = 0
    /\ steps' = <<>>
    /\ state' = opts'.initialResult
    /\ agentReturn' = None
    /\ hist' = <<>>
    /\ UNCHANGED <<store, llmVars, mergeVars, buildVars, normVars, heurVars, persistVars>>

\* const agentEdges = await inferAgentRelationships(findings) is the object
\* {edges, steps}; normalizeAgentEdges(agentEdges, nodes) reads its undefined
\* .length, goes on, and `for (const edge of agentEdges)` throws a TypeError.
\* The call rejects before resetGraphSnapshot and before any session opens.
NormalizeThrows ==
    /\ ingestPc = "enrich"
    /\ agentPc = "returned"
    /\ ingestPc' = "thrown"
    /\ ingestResult' = Some(ThrownError("agentEdges is not iterable"))
    /\ UNCHANGED <<findings, callNo, store, runs, agentVars, llmVars, mergeVars, buildVars, normVars, heurVars, persistVars>>

NextIngest ==
    \/ IngestRejects
    \/ IngestStarts
    \/ ToolReturns
    \/ ToolThrows
    \/ ReducerThrows
    \/ AgentReturn
    \/ NormalizeThrows

SpecIngest == InitIngest /\ [][NextIngest]_vars

----------------------------------------------------------------------------
(* build-graph.ts: buildGraphPayload, ensureNode, deriveAssetId *)

\* `${x}` for a value that may be undefined.
Str(v) == IF v = Undefined THEN "undefined" ELSE v

\* a ?? b for an optional a.
OrElse(a, b) == IF IsSome(a) THEN Get(a) ELSE b

\* The vulnerability, asset and package parts of a FindingRecord as the
\* parsed file gives them: an identifier the file leaves out is undefined.
VulnerabilityOf(cve, cwe, owasp) ==
    [cve_id |-> cve, cwe_id |-> cwe, owasp_id |-> owasp,
     title |-> "title", severity |-> "HIGH", description |-> "text", vector |-> "net"]
AssetOf(type, url, path, image, registry, service, cluster, repo) ==
    [type |-> type, url |-> url, path |-> path, image |-> image,
     registry |-> registry, service |-> service, cluster |-> cluster, repo |-> repo]
PackageOf(ecosystem, name, version) ==
    [ecosystem |-> ecosystem, name |-> name, version |-> version]
FindingRecord(id, scanner, scan, ts, vulnerability, asset, package) ==
    [finding_id |-> id, scanner |-> scanner, scan_id |-> scan, timestamp |-> ts,
     vulnerability |-> vulnerability, asset |-> asset, package |-> package]

\* A GraphNode.  Every property value is optional (it may be undefined).
GraphNode(label, id, properties) == [label |-> label, id |-> id, properties |-> properties]

\* if (image) `image:${image}`; if (url) url; if (path) `file:${path}`;
\* `${type}:${service ?? "unknown"}`
deriveAssetIdUrlFirst(finding) ==
    IF TruthyString(finding.asset.url) THEN Get(finding.asset.url)
    ELSE IF TruthyString(finding.asset.image) THEN "image:" \o Get(finding.asset.image)
    ELSE IF TruthyString(finding.asset.path) THEN "file:" \o Get(finding.asset.path)
    ELSE finding.asset.type \o ":" \o OrElse(finding.asset.service, "unknown")
deriveAssetId(finding) ==
    IF TruthyString(finding.asset.image) THEN "image:" \o Get(finding.asset.image)
    ELSE IF TruthyString(finding.asset.url) THEN Get(finding.asset.url)
    ELSE IF TruthyString(finding.asset.path) THEN "file:" \o Get(finding.asset.path)
    ELSE finding.asset.type \o ":" \o OrElse(finding.asset.service, "unknown")

\* cve_id ?? cwe_id ?? owasp_id: undefined when the finding has none of them.
vulnerabilityId(finding) ==
    OrElse(finding.vulnerability.cve_id,
           OrElse(finding.vulnerability.cwe_id,
                  OrElse(finding.vulnerability.owasp_id, Undefined)))

\* The Map<string, GraphNode> of one build: its entries in insertion order.
\* const compositeId = `${node.label}:${node.id}`;
CompositeId(node) == node.label \o ":" \o Str(node.id)
MapHasNever(map, key) == FALSE
MapHas(map, key) == \E i \in 1..Len(map) : map[i].key = key
MapIndex(map, key) == CHOOSE i \in 1..Len(map) : map[i].key = key

\* ensureNode(map, node): the map afterwards and the node it returns.
ensureNode(map, node) ==
    IF ~MapHas(map, CompositeId(node))
    THEN [map |-> Append(map, [key |-> CompositeId(node), node |-> node]), node |-> node]
    ELSE LET i == MapIndex(map, CompositeId(node))
             existing == [map[i].node EXCEPT
                             !.properties = node.properties @@ map[i].node.properties]
         IN  [map |-> [map EXCEPT ![i].node = existing], node |-> existing]

\* if (cond) { const n = ensureNode(nodeMap, node); ... }: the map afterwards
\* and the node, the map as it was when the branch is not taken.
EnsureIf(map, cond, node) ==
    IF cond THEN ensureNode(map, node) ELSE [map |-> map, node |-> node]

\* if (cond) { ...; edges.push(...) }
PushIf(cond, edges) == IF cond THEN edges ELSE <<>>

\* One iteration of `for (const finding of findings)`.
BuildFinding(acc, finding) ==
    LET v == finding.vulnerability
        a == finding.asset
        p == finding.package
        hasService == TruthyString(a.service)
        hasCluster == TruthyString(a.cluster)
        hasRegistry == TruthyString(a.registry)
        hasRepo == TruthyString(a.repo)
        hasFile == a.type = "source_file" /\ TruthyString(a.path)
        hasPackage == IsSome(p)
        r1 == ensureNode(acc.map, GraphNode("Finding", finding.finding_id,
                  [scanner |-> Some(finding.scanner), scan_id |-> Some(finding.scan_id),
                   timestamp |-> Some(finding.timestamp), severity |-> Some(v.severity),
                   title |-> Some(v.title), vector |-> Some(v.vector)]))
        r2 == ensureNode(r1.map, GraphNode("Scan", finding.scan_id,
                  [scanner |-> Some(finding.scanner), occurred_at |-> Some(finding.timestamp)]))
        r3 == ensureNode(r2.map, GraphNode("Scanner", finding.scanner,
                  [name |-> Some(finding.scanner)]))
        r4 == ensureNode(r3.map, GraphNode("Vulnerability", vulnerabilityId(finding),
                  [cve_id |-> v.cve_id, cwe_id |-> v.cwe_id, owasp_id |-> v.owasp_id,
                   severity |-> Some(v.severity), title |-> Some(v.title),
                   description |-> Some(v.description), vector |-> Some(v.vector)]))
        r5 == ensureNode(r4.map, GraphNode("Asset", deriveAssetId(finding),
                  [type |-> Some(a.type), url |-> a.url, path |-> a.path, image |-> a.image,
                   registry |-> a.registry, service |-> a.service, cluster |-> a.cluster]))
        r6 == EnsureIf(r5.map, hasService,
                  GraphNode("Service", OrElse(a.service, Undefined), [name |-> a.service]))
        r7 == EnsureIf(r6.map, hasCluster,
                  GraphNode("Cluster", OrElse(a.cluster, Undefined), [name |-> a.cluster]))
        r8 == EnsureIf(r7.map, hasRegistry,
                  GraphNode("Registry", OrElse(a.registry, Undefined), [name |-> a.registry]))
        r9 == EnsureIf(r8.map, hasRepo,
                  GraphNode("Repository", OrElse(a.repo, Undefined), [url |-> a.repo]))
        r10 == EnsureIf(r9.map, hasFile,
                  GraphNode("SourceFile", OrElse(a.path, Undefined), [path |-> a.path]))
        r11 == EnsureIf(r10.map, hasPackage,
                  GraphNode("Package",
                            IF hasPackage
                            THEN Get(p).ecosystem \o ":" \o Get(p).name \o "@" \o Get(p).version
                            ELSE Undefined,
                            IF hasPackage
                            THEN [ecosystem |-> Some(Get(p).ecosystem),
                                  name |-> Some(Get(p).name),
                                  version |-> Some(Get(p).version)]
                            ELSE EmptyBag))
        findingNode == r1.node
        scanNode == r2.node
        scannerNode == r3.node
        vulnerabilityNode == r4.node
        assetNode == r5.node
    IN  [map |-> r11.map,
         edges |-> acc.edges
            \o << createEdge("REPORTS", findingNode, vulnerabilityNode),
                  createEdge("FOUND_ON", findingNode, assetNode),
                  createEdge("GENERATED_BY", findingNode, scannerNode),
                  createEdge("PART_OF_SCAN", findingNode, scanNode),
                  createEdge("SCANNED_BY", scanNode, scannerNode),
                  createEdge("AFFECTS", vulnerabilityNode, assetNode) >>
            \o PushIf(hasService,
                      << createEdge("BELONGS_TO_SERVICE", assetNode, r6.node),
                         createEdge("IMPACTS_SERVICE", vulnerabilityNode, r6.node) >>)
            \o PushIf(hasCluster, << createEdge("DEPLOYED_ON", assetNode, r7.node) >>)
            \o PushIf(hasRegistry, << createEdge("PUBLISHED_TO", assetNode, r8.node) >>)
            \o PushIf(hasRepo, << createEdge("TRACKED_IN", assetNode, r9.node) >>)
            \o PushIf(hasFile, << createEdge("CONTAINS_FILE", assetNode, r10.node) >>)
            \o PushIf(hasPackage,
                      << createEdge("USES_PACKAGE", assetNode, r11.node),
                         createEdge("ASSOCIATED_WITH", r11.node, vulnerabilityNode) >>)]

\* for (const finding of findings) { ... }: the iterations run one after the
\* other, each on the map and the edges the one before left (the comparison
\* makes the evaluation of an iteration complete before the next one starts).
RECURSIVE BuildAll(_, _)
BuildAll(acc, fs) ==
    IF fs = <<>> THEN acc
    ELSE LET next == BuildFinding(acc, Head(fs))
         IN  IF next = acc THEN BuildAll(acc, Tail(fs)) ELSE BuildAll(next, Tail(fs))

\* return { nodes: [...nodeMap.values()], edges };
buildGraphPayload(fs) ==
    LET acc == BuildAll([map |-> <<>>, edges |-> <<>>], fs)
    IN  [nodes |-> [i \in 1..Len(acc.map) |-> acc.map[i].node], edges |-> acc.edges]

\* Findings of scanner files: a container image seen at two URLs, findings
\* with and without identifiers and package, a source file, a bare endpoint
\* with and without service, and a finding id reported by a second scanner.
BuildFindingPool ==
    { FindingRecord("FG-1", "trivy", "scan-1", "t1",
          VulnerabilityOf(Some("CVE-1"), Some("CWE-79"), Some("A03")),
          AssetOf("container_image", Some("https://a.example/x"), None, Some("app:1.0"),
                  Some("ghcr"), Some("api"), Some("prod"), None),
          Some(PackageOf("npm", "lodash", "4.0"))),
      FindingRecord("FG-2", "trivy", "scan-1", "t2",
          VulnerabilityOf(None, Some("CWE-79"), Some("A03")),
          AssetOf("container_image", Some("https://b.example/y"), None, Some("app:1.0"),
                  None, Some("api"), None, None),
          None),
      FindingRecord("FG-3", "zap", "scan-2", "t3",
          VulnerabilityOf(None, None, None),
          AssetOf("web_route", Some("https://a.example/x"), None, None,
                  None, None, None, None),
          None),
      FindingRecord("FG-4", "semgrep", "scan-3", "t4",
          VulnerabilityOf(Some("CVE-1"), None, None),
          AssetOf("source_file", None, Some("src/a.ts"), None,
                  None, None, None, Some("git.example/repo")),
          None),
      FindingRecord("FG-5", "zap", "scan-2", "t5",
          VulnerabilityOf(None, None, Some("A03")),
          AssetOf("api_endpoint", None, None, None,
                  None, Some("payments"), Some("payments"), None),
          None),
      FindingRecord("FG-6", "zap", "scan-2", "t6",
          VulnerabilityOf(Some("CVE-2"), None, None),
          AssetOf("api_endpoint", None, None, None,
                  None, None, None, None),
          Some(PackageOf("npm", "lodash", "4.0"))),
      FindingRecord("FG-1", "grype", "scan-4", "t7",
          VulnerabilityOf(Some("CVE-1"), None, None),
          AssetOf("container_image", None, None, Some("app:1.0"),
                  None, None, None, None),
          None) }

MaxBuildFindings == 2

InitBuild ==
    /\ buildInput \in SeqsUpTo(BuildFindingPool, MaxBuildFindings)
    /\ buildPc = "args"
    /\ payload = None
    /\ IdleAgent
    /\ env = [baseUrl |-> FALSE, apiKey |-> FALSE]
    /\ httpCalls = 0
    /\ IdleIngest
    /\ IdleMerge
    /\ IdleNormalize
    /\ IdleHeuristics
    /\ IdlePersist

BuildCall ==
    /\ buildPc = "args"
    /\ payload' = Some(buildGraphPayload(buildInput))
    /\ buildPc' = "done"
    /\ UNCHANGED <<buildInput, agentVars, llmVars, ingestVars, mergeVars, normVars, heurVars, persistVars>>

NextBuild == BuildCall

SpecBuild == InitBuild /\ [][NextBuild]_vars

----------------------------------------------------------------------------
(* ingest-findings.ts: normalizeAgentEdges *)

\* makeKey = `${label}:${id}`, makeLowerKey = `${label.toLowerCase()}:${id}`
makeKey(label, id) == label \o ":" \o Str(id)
makeLowerKey(label, id) == ToLowerCase(label) \o ":" \o Str(id)

\* map.get(key) of a Map filled by set() in node order: the last node of the
\* key; of the byId map, filled only when the id is new: the first node.
LastIndex(S) == CHOOSE i \in S : \A j \in S : j <= i
FirstIndex(S) == CHOOSE i \in S : \A j \in S : i <= j
RefOf(node) == Ref(node.label, node.id)

byLabelAndId(ns, key) ==
    LET S == {i \in 1..Len(ns) : makeKey(ns[i].label, ns[i].id) = key}
    IN  IF S = {} THEN None ELSE Some(RefOf(ns[LastIndex(S)]))
byLowerLabel(ns, key) ==
    LET S == {i \in 1..Len(ns) : makeLowerKey(ns[i].label, ns[i].id) = key}
    IN  IF S = {} THEN None ELSE Some(RefOf(ns[LastIndex(S)]))
byId(ns, id) ==
    LET S == {i \in 1..Len(ns) : ns[i].id = id}
    IN  IF S = {} THEN None ELSE Some(RefOf(ns[FirstIndex(S)]))

\* resolveEndpoint(endpoint): the node reference, or null (None).
resolveEndpointAsGiven(ns, endpoint) == Some(endpoint)
resolveEndpoint(ns, endpoint) ==
    LET exact == byLabelAndId(ns, makeKey(endpoint.label, endpoint.id))
        lower == byLowerLabel(ns, makeLowerKey(endpoint.label, endpoint.id))
        byIdMatch == byId(ns, endpoint.id)
    IN  IF IsSome(exact) THEN exact
        ELSE IF IsSome(lower) THEN lower
        ELSE byIdMatch

RECURSIVE NormalizeAll(_, _, _)
NormalizeAll(acc, edges, ns) ==
    IF edges = <<>> THEN acc
    ELSE LET edge == Head(edges)
             from == resolveEndpoint(ns, edge.from)
             to == resolveEndpoint(ns, edge.to)
         IN  IF ~IsSome(from) \/ ~IsSome(to)
             THEN NormalizeAll([acc EXCEPT !.dropped = @ + 1], Tail(edges), ns)
             ELSE NormalizeAll(
                      [acc EXCEPT !.edges = Append(@, [edge EXCEPT !.from = Get(from),
                                                                   !.to = Get(to)])],
                      Tail(edges), ns)

\* normalizeAgentEdges(agentEdges, nodes) for an array agentEdges.
normalizeAgentEdges(edges, ns) ==
    IF Len(edges) = 0 THEN [edges |-> <<>>, dropped |-> 0]
    ELSE NormalizeAll([edges |-> <<>>, dropped |-> 0], edges, ns)

\* Suggestions of the agent: endpoints that name a built node exactly, with a
\* lowercase label, with a label no node has, with a label holding a ":",
\* and with an id no node has.
SuggestionPool ==
    { Edge("ROOT_CAUSE", Ref("finding", "FG-1"), Ref("Finding", "FG-2"),
           Some([provenance |-> "agent_llm", agent_source |-> "llm"]),
           Some("Same base image.")),
      Edge("OWNED_BY", Ref("Finding", "FG-1"), Ref("Team", "payments"),
           Some([provenance |-> "agent_llm", agent_source |-> "llm"]),
           Some("Owned by the payments team.")),
      Edge("RUNS_ON", Ref("Finding", "FG-1"), Ref("Asset:image", "app:1.0"),
           Some([provenance |-> "agent_llm", agent_source |-> "llm"]), None),
      Edge("RELATED", Ref("Finding", "FG-9"), Ref("Finding", "FG-1"),
           Some([provenance |-> "agent_llm", agent_source |-> "llm"]), None) }

MaxSuggestions == 2

\* The node lists buildGraphPayload makes of the batches of the pool.
BuiltNodeLists ==
    {buildGraphPayload(b).nodes : b \in SeqsUpTo(BuildFindingPool, MaxBuildFindings)}

InitNormalize ==
    /\ normEdges \in SeqsUpTo(SuggestionPool, MaxSuggestions)
    /\ normNodes \in BuiltNodeLists
    /\ normPc = "args"
    /\ normOut = None
    /\ IdleAgent
    /\ env = [baseUrl |-> FALSE, apiKey |-> FALSE]
    /\ httpCalls = 0
    /\ IdleIngest
    /\ IdleMerge
    /\ IdleBuild
    /\ IdleHeuristics
    /\ IdlePersist

NormalizeCall ==
    /\ normPc = "args"
    /\ normOut' = Some(normalizeAgentEdges(normEdges, normNodes))
    /\ normPc' = "done"
    /\ UNCHANGED <<normEdges, normNodes, agentVars, llmVars, ingestVars, mergeVars, buildVars,
                   heurVars, persistVars>>

NextNormalize == NormalizeCall

SpecNormalize == InitNormalize /\ [][NextNormalize]_vars

----------------------------------------------------------------------------
(* graph-agent.ts: one call of heuristicSuggestions *)

\* Findings of one or two scans: two findings of scan-1 with one CVE and one
\* service found 10 minutes apart, a third one 90 seconds after the first
\* with neither service nor CVE, a fourth on the same service, and a finding
\* of another scan whose service is the empty string.
HeuristicFindingPool ==
    { Finding("FG-1", "scan-1", 0, Some("api"), Some("CVE-2024-35689")),
      Finding("FG-2", "scan-1", 20, Some("api"), Some("CVE-2024-35689")),
      Finding("FG-3", "scan-1", 3, None, None),
      Finding("FG-4", "scan-1", 7, Some("api"), Some("CVE-2")),
      Finding("FG-5", "scan-2", 1, Some(""), Some("CVE-2")) }

MaxHeuristicFindings == 3

InitHeuristics ==
    /\ heurInput \in SeqsUpTo(HeuristicFindingPool, MaxHeuristicFindings)
    /\ heurPc = "args"
    /\ heurOut = <<>>
    /\ IdleAgent
    /\ env = [baseUrl |-> FALSE, apiKey |-> FALSE]
    /\ httpCalls = 0
    /\ IdleIngest
    /\ IdleMerge
    /\ IdleBuild
    /\ IdleNormalize
    /\ IdlePersist

HeuristicsCall ==
    /\ heurPc = "args"
    /\ heurOut' = heuristicSuggestions(heurInput)
    /\ heurPc' = "done"
    /\ UNCHANGED <<heurInput, agentVars, llmVars, ingestVars, mergeVars, buildVars,
                   normVars, persistVars>>

NextHeuristics == HeuristicsCall

SpecHeuristics == InitHeuristics /\ [][NextHeuristics]_vars

----------------------------------------------------------------------------
(* neo4j-client (build-graph.ts:192-248) and the persistence phase of       *)
(* ingestFindings (ingest-findings.ts:62-132), entered with the built        *)
(* payload and an array of agent suggestions.  Every await is the end of an  *)
(* action: between two awaits a call runs without interruption.             *)

Calls == {1, 2}

\* An ingestFindings call that has not been made.
IdleCall ==
    [pc |-> "idle", batch |-> <<>>, suggestions |-> <<>>, viaRoute |-> FALSE,
     basePayload |-> None, normalized |-> None, merged |-> None,
     writes |-> <<>>, pos |-> 0, session |-> None, used |-> {}, error |-> None,
     log |-> <<>>, found |-> None, result |-> None]

\* The graph store: nodes keyed by label and id, relationships keyed by type
\* and end nodes, each with its properties.
EmptyGraph == [nodes |-> {}, edges |-> {}]

\* withoutUndefined(node.properties): the keys whose value is not undefined.
withoutUndefined(properties) ==
    [k \in {x \in DOMAIN properties : properties[x] # None} |-> properties[k]]

\* const list = grouped.get(node.label) ?? []; list.push(node): one group per
\* label, in the order the labels are first met.
groupByLabelEachNode(nodes) ==
    [i \in 1..Len(nodes) |-> [key |-> nodes[i].label, items |-> <<nodes[i]>>]]
groupByLabel(nodes) ==
    LET labels == FirstOccurrences([i \in 1..Len(nodes) |-> nodes[i].label])
    IN  [n \in 1..Len(labels) |->
            [key |-> labels[n],
             items |-> SelectSeq(nodes, LAMBDA node : node.label = labels[n])]]

\* const key = `${edge.type}|${edge.from.label}|${edge.to.label}`
GroupKey(edge) == edge.type \o "|" \o edge.from.label \o "|" \o edge.to.label

\* groupEdgesByLabel: one group per key, of {fromId, toId, properties}.
groupEdgesByLabel(edges) ==
    LET keys == FirstOccurrences([i \in 1..Len(edges) |-> GroupKey(edges[i])])
        ofKey(k) == SelectSeq(edges, LAMBDA edge : GroupKey(edge) = k)
    IN  [n \in 1..Len(keys) |->
            [key |-> keys[n],
             items |-> [i \in 1..Len(ofKey(keys[n])) |->
                           [fromId |-> ofKey(keys[n])[i].fromId,
                            toId |-> ofKey(keys[n])[i].toId,
                            properties |-> ofKey(keys[n])[i].properties]]]]

\* The labels buildGraphPayload gives nodes and the relationship types of
\* its edges and of the agent's suggestions: strings without "|".
NodeLabels ==
    {"Finding", "Scan", "Scanner", "Vulnerability", "Asset", "Service", "Cluster",
     "Registry", "Repository", "SourceFile", "Package"}
EdgeTypes ==
    {"REPORTS", "FOUND_ON", "GENERATED_BY", "PART_OF_SCAN", "SCANNED_BY", "AFFECTS",
     "BELONGS_TO_SERVICE", "IMPACTS_SERVICE", "DEPLOYED_ON", "PUBLISHED_TO",
     "TRACKED_IN", "CONTAINS_FILE", "USES_PACKAGE", "ASSOCIATED_WITH",
     "ROOT_CAUSE", "OWNED_BY", "RUNS_ON", "RELATED"}

\* const [type, fromLabel, toLabel] = edgeKey.split("|"), on the keys that
\* three strings without "|" make.
SplitPairs ==
    {<<t \o "|" \o a \o "|" \o b, <<t, a, b>> >> :
        t \in EdgeTypes, a \in NodeLabels, b \in NodeLabels}
split(groupKey) == (CHOOSE pair \in SplitPairs : pair[1] = groupKey)[2]

\* The session.run calls of the write callback, in the order of the two
\* for-loops: one per group of nodes, then one per group of edges.  The
\* property bag of a merged edge holds no undefined value (provenance and
\* enriched are defaulted, rationale is set only when truthy), so
\* withoutUndefined(edge.properties ?? {}) keeps every key of it.
WritesOf(groupedNodes, groupedEdges) ==
    [n \in 1..Len(groupedNodes) |->
        [kind |-> "node", key |-> groupedNodes[n].key,
         items |-> [i \in 1..Len(groupedNodes[n].items) |->
                       [id |-> groupedNodes[n].items[i].id,
                        props |-> withoutUndefined(groupedNodes[n].items[i].properties)]]]]
    \o [n \in 1..Len(groupedEdges) |->
        [kind |-> "edge", key |-> groupedEdges[n].key,
         items |-> [i \in 1..Len(groupedEdges[n].items) |->
                       [fromId |-> groupedEdges[n].items[i].fromId,
                        toId |-> groupedEdges[n].items[i].toId,
                        props |-> OrElse(groupedEdges[n].items[i].properties, EmptyBag)]]]]

\* MATCH (n) DETACH DELETE n
DetachDeleteNothing(g) == g
DetachDeleteAll(g) == EmptyGraph

\* MERGE (n:label {id: node.id}) SET n += node.props
MergeNode(g, label, node) ==
    LET old == {r \in g.nodes : r.label = label /\ r.id = node.id}
        props == IF old = {} THEN node.props
                 ELSE node.props @@ (CHOOSE r \in old : TRUE).props
    IN  [g EXCEPT !.nodes = (@ \ old) \cup {[label |-> label, id |-> node.id, props |-> props]}]

\* MATCH (from:fromLabel {id: edge.fromId}) MATCH (to:toLabel {id: edge.toId})
\* MERGE (from)-[r:type]->(to) SET r += edge.props: no row, and no write, when
\* one of the nodes is not in the store.
Matches(g, label, id) == \E r \in g.nodes : r.label = label /\ r.id = id
MergeRelationship(g, groupKey, edge) ==
    LET type == split(groupKey)[1]
        from == Ref(split(groupKey)[2], edge.fromId)
        to == Ref(split(groupKey)[3], edge.toId)
        old == {r \in g.edges : r.type = type /\ r.from = from /\ r.to = to}
        props == IF old = {} THEN edge.props
                 ELSE edge.props @@ (CHOOSE r \in old : TRUE).props
    IN  IF Matches(g, from.label, from.id) /\ Matches(g, to.label, to.id)
        THEN [g EXCEPT !.edges =
                 (@ \ old) \cup {[type |-> type, from |-> from, to |-> to, props |-> props]}]
        ELSE g

\* UNWIND $nodes AS node ... / UNWIND $edges AS edge ...
RECURSIVE Unwind(_, _, _)
Unwind(g, write, items) ==
    IF items = <<>> THEN g
    ELSE Unwind(IF write.kind = "node" THEN MergeNode(g, write.key, Head(items))
                ELSE MergeRelationship(g, write.key, Head(items)),
                write, Tail(items))
ApplyWrite(g, write) == Unwind(g, write, write.items)

\* A query the store cannot run: MERGE on a node whose id is null.
Unrunnable(write) ==
    write.kind = "node" /\ \E i \in 1..Len(write.items) : write.items[i].id = Undefined

\* getNeo4jDriver(): the cached driver, or a new one made from the
\* configuration, or the throw of resolveConfig.
getNeo4jDriver ==
    IF cachedDriver # 0
    THEN [threw |-> FALSE, driver |-> cachedDriver, drivers |-> drivers]
    ELSE IF ~neo4jConfigured
    THEN [threw |-> TRUE, driver |-> 0, drivers |-> drivers]
    ELSE [threw |-> FALSE, driver |-> Len(drivers) + 1, drivers |-> Append(drivers, "open")]

\* A query as the session issues it, and whether its driver was closed then.
Query(kind, key, driver, ds) ==
    [kind |-> kind, key |-> key, driver |-> driver, closed |-> ds[driver] = "closed"]

\* The session of a call is on a driver that is still open.
SessionUsable(c) ==
    IsSome(ingests[c].session) /\ drivers[Get(ingests[c].session)] = "open"

\* An awaited session.run that rejects leaves the for-loop and the callback.
RejectionEndsLoopNever(write) == FALSE
RejectionEndsLoop(write) == TRUE

StoreError == "Neo4jError"
ConfigError ==
    "Neo4j configuration missing. Set NEO4J_URI, NEO4J_USERNAME, and NEO4J_PASSWORD in your environment."

\* The batches and suggestion arrays the calls of the model are made with:
\* non-empty batches over two findings of one image, a finding without
\* vulnerability identifier and a finding on a service; no suggestion, or one
\* whose endpoint label is in lower case followed by one that names no node.
MaxPersistFindings == 2
PersistFindingPool ==
    {f \in BuildFindingPool :
        <<f.finding_id, f.scanner>> \in
            {<<"FG-1", "trivy">>, <<"FG-2", "trivy">>, <<"FG-3", "zap">>, <<"FG-5", "zap">>}}
PersistBatches == SeqsUpTo(PersistFindingPool, MaxPersistFindings) \ {<<>>}
PersistSuggestions ==
    {<<>>} \cup
    {s \in SeqsUpTo(SuggestionPool, 2) :
        [i \in 1..Len(s) |-> s[i].type] = <<"ROOT_CAUSE", "RELATED">>}

\* What an earlier ingestion of a batch left in the store.
RECURSIVE ApplyAll(_, _)
ApplyAll(g, writes) ==
    IF writes = <<>> THEN g ELSE ApplyAll(ApplyWrite(g, Head(writes)), Tail(writes))
StoredBy(base) ==
    ApplyAll(EmptyGraph,
             WritesOf(groupByLabel(base.nodes),
                      groupEdgesByLabel(mergeEdges(base.edges, <<>>).edges)))
Storable(base) == \A n \in 1..Len(base.nodes) : base.nodes[n].id # Undefined
StoredGraphs ==
    {EmptyGraph} \cup
    {StoredBy(base) :
        base \in {b \in {buildGraphPayload(x) : x \in {y \in PersistBatches : Len(y) = 1}} :
                     Storable(b)}}

\* ingestFindings' return value.
IngestionResult(call) ==
    LET merged == Get(call.merged)
        dropped == Get(call.normalized).dropped
    IN  [findings |-> Len(call.batch),
         nodesCreated |-> Len(Get(call.basePayload).nodes),
         relationshipsCreated |-> Len(merged.edges),
         agentSuggestionsApplied |-> merged.counts.agent,
         agentSuggestionsDropped |-> IF dropped > 0 THEN Some(dropped) ELSE None,
         agentRelationships |-> merged.agentApplied,
         provenance |-> [base |-> [nodes |-> Len(Get(call.basePayload).nodes),
                                   relationships |-> merged.counts.base],
                         agent |-> [nodes |-> 0, relationships |-> merged.counts.agent]],
         skipped |-> FALSE]

\* The process before the call: Neo4j configured or not, a driver cached by
\* an earlier query or none, the store empty or holding an earlier ingestion.
InitPersist ==
    /\ neo4jConfigured \in BOOLEAN
    /\ \/ cachedDriver = 0 /\ drivers = <<>>
       \/ neo4jConfigured /\ cachedDriver = 1 /\ drivers = <<"open">>
    /\ ingests = [c \in Calls |-> IdleCall]
    /\ graph \in StoredGraphs
    /\ overlap = FALSE
    /\ IdleAgent
    /\ env = [baseUrl |-> FALSE, apiKey |-> FALSE]
    /\ httpCalls = 0
    /\ IdleIngest
    /\ IdleMerge
    /\ IdleBuild
    /\ IdleNormalize
    /\ IdleHeuristics

\* A process that takes a second request while the first call is running.
InitOverlap ==
    /\ neo4jConfigured = TRUE
    /\ cachedDriver = 0
    /\ drivers = <<>>
    /\ ingests = [c \in Calls |-> IdleCall]
    /\ graph = EmptyGraph
    /\ overlap = TRUE
    /\ IdleAgent
    /\ env = [baseUrl |-> FALSE, apiKey |-> FALSE]
    /\ httpCalls = 0
    /\ IdleIngest
    /\ IdleMerge
    /\ IdleBuild
    /\ IdleNormalize
    /\ IdleHeuristics

\* The inputs of a call: any batch and suggestions of the model; the calls of
\* an overlapping pair ingest a one-finding batch.
InputsOf(c) ==
    IF overlap
    THEN {x \in PersistBatches : Len(x) = 1 /\ x[1].finding_id = "FG-5"} \X {<<>>}
    ELSE PersistBatches \X PersistSuggestions

\* The callers of a call: the POST route or the ingestion script; two calls
\* that overlap are two requests to the route.
CallersOf(c) == IF overlap THEN {TRUE} ELSE BOOLEAN

\* await resetGraphSnapshot(): withNeo4jSession gets the driver, opens a
\* session and issues the delete (lines 62, 310-313, 230-237).
ResetIssued(c) ==
    /\ ingests[c].pc = "idle"
    /\ c = 1 \/ (overlap /\ ingests[1].pc # "idle")
    /\ \E input \in InputsOf(c), viaRoute \in CallersOf(c) :
       \E base \in {buildGraphPayload(input[1])} :
          LET norm == normalizeAgentEdges(input[2], base.nodes)
              d == getNeo4jDriver
              call == [ingests[c] EXCEPT !.batch = input[1], !.suggestions = input[2],
                                         !.viaRoute = viaRoute,
                                         !.basePayload = Some(base),
                                         !.normalized = Some(norm),
                                         !.found = Some(graph)]
          IN  IF d.threw
              THEN /\ ingests' = [ingests EXCEPT ![c] =
                                     [call EXCEPT !.pc = "thrown", !.error = Some(ConfigError)]]
                   /\ UNCHANGED <<cachedDriver, drivers>>
              ELSE /\ cachedDriver' = d.driver
                   /\ drivers' = d.drivers
                   /\ ingests' = [ingests EXCEPT ![c] =
                                     [call EXCEPT !.pc = "resetRun",
                                                  !.session = Some(d.driver),
                                                  !.used = {d.driver},
                                                  !.log = <<Query("reset", "", d.driver, d.drivers)>>]]
    /\ UNCHANGED <<neo4jConfigured, graph, overlap, agentVars, llmVars, ingestVars,
                   mergeVars, buildVars, normVars, heurVars>>

\* The delete resolves; finally { await session.close() } begins.
ResetResolves(c) ==
    /\ ingests[c].pc = "resetRun"
    /\ SessionUsable(c)
    /\ graph' = DetachDeleteAll(graph)
    /\ ingests' = [ingests EXCEPT ![c].pc = "resetClose"]
    /\ UNCHANGED <<neo4jConfigured, cachedDriver, drivers, overlap, agentVars, llmVars,
                   ingestVars, mergeVars, buildVars, normVars, heurVars>>

\* The delete rejects; finally { await session.close() } begins.
ResetRejects(c) ==
    /\ ingests[c].pc = "resetRun"
    /\ ingests' = [ingests EXCEPT ![c].pc = "resetClose", ![c].error = Some(StoreError)]
    /\ UNCHANGED <<neo4jConfigured, cachedDriver, drivers, graph, overlap, agentVars, llmVars,
                   ingestVars, mergeVars, buildVars, normVars, heurVars>>

\* The session of the reset is closed.  After a rejected delete the error
\* leaves ingestFindings; otherwise the call merges and groups (lines 64-70),
\* withNeo4jSession gets the driver, opens a session and the callback issues
\* its first write (lines 72-74).
ResetSessionClosed(c) ==
    /\ ingests[c].pc = "resetClose"
    /\ IF IsSome(ingests[c].error)
       THEN /\ ingests' = [ingests EXCEPT ![c].pc = "thrown", ![c].session = None]
            /\ UNCHANGED <<cachedDriver, drivers>>
       ELSE LET call == ingests[c]
                merged == mergeEdges(Get(call.basePayload).edges, Get(call.normalized).edges)
                writes == WritesOf(groupByLabel(Get(call.basePayload).nodes),
                                   groupEdgesByLabel(merged.edges))
                d == getNeo4jDriver
            IN  /\ cachedDriver' = d.driver
                /\ drivers' = d.drivers
                /\ ingests' = [ingests EXCEPT ![c] =
                      [call EXCEPT !.pc = "writeRun", !.merged = Some(merged),
                                   !.writes = writes, !.pos = 1,
                                   !.session = Some(d.driver),
                                   !.used = @ \cup {d.driver},
                                   !.log = Append(@, Query(writes[1].kind, writes[1].key,
                                                           d.driver, d.drivers))]]
    /\ UNCHANGED <<neo4jConfigured, graph, overlap, agentVars, llmVars, ingestVars,
                   mergeVars, buildVars, normVars, heurVars>>

\* A write resolves: the loop issues the next write, or the callback returns
\* and finally { await session.close() } begins.
WriteResolves(c) ==
    /\ ingests[c].pc = "writeRun"
    /\ SessionUsable(c)
    /\ LET call == ingests[c]
           write == call.writes[call.pos]
       IN  /\ ~Unrunnable(write)
           /\ graph' = ApplyWrite(graph, write)
           /\ IF call.pos < Len(call.writes)
              THEN ingests' = [ingests EXCEPT ![c] =
                      [call EXCEPT !.pos = @ + 1,
                                   !.log = Append(@, Query(call.writes[call.pos + 1].kind,
                                                           call.writes[call.pos + 1].key,
                                                           Get(call.session), drivers))]]
              ELSE ingests' = [ingests EXCEPT ![c].pc = "writeClose"]
    /\ UNCHANGED <<neo4jConfigured, cachedDriver, drivers, overlap, agentVars, llmVars,
                   ingestVars, mergeVars, buildVars, normVars, heurVars>>

\* A write rejects: the error leaves the loop and the callback, and
\* finally { await session.close() } begins.
WriteRejects(c) ==
    /\ ingests[c].pc = "writeRun"
    /\ LET call == ingests[c]
           write == call.writes[call.pos]
       IN  IF RejectionEndsLoop(write) \/ call.pos = Len(call.writes)
           THEN ingests' = [ingests EXCEPT ![c].pc = "writeClose",
                                           ![c].error = Some(StoreError)]
           ELSE ingests' = [ingests EXCEPT ![c] =
                   [call EXCEPT !.pos = @ + 1,
                                !.log = Append(@, Query(call.writes[call.pos + 1].kind,
                                                        call.writes[call.pos + 1].key,
                                                        Get(call.session), drivers))]]
    /\ UNCHANGED <<neo4jConfigured, cachedDriver, drivers, graph, overlap, agentVars, llmVars,
                   ingestVars, mergeVars, buildVars, normVars, heurVars>>

\* The session of the writes is closed.  After a rejected write the error
\* leaves ingestFindings; otherwise await shutdownNeo4jDriver() begins: it
\* closes the cached driver if there is one (lines 106, 243-245).
WriteSessionClosed(c) ==
    /\ ingests[c].pc = "writeClose"
    /\ IF IsSome(ingests[c].error)
       THEN /\ ingests' = [ingests EXCEPT ![c].pc = "thrown", ![c].session = None]
            /\ UNCHANGED drivers
       ELSE /\ ingests' = [ingests EXCEPT ![c].pc = "shutdown", ![c].session = None]
            /\ drivers' = IF cachedDriver # 0
                          THEN [drivers EXCEPT ![cachedDriver] = "closed"]
                          ELSE drivers
    /\ UNCHANGED <<neo4jConfigured, cachedDriver, graph, overlap, agentVars, llmVars,
                   ingestVars, mergeVars, buildVars, normVars, heurVars>>

\* cachedDriver.close() has resolved: cachedDriver = null (line 246), and
\* ingestFindings returns its result (lines 108-132).
ShutdownResolves(c) ==
    /\ ingests[c].pc = "shutdown"
    /\ cachedDriver' = 0
    /\ ingests' = [ingests EXCEPT ![c].pc = "returned",
                                  ![c].result = Some(IngestionResult(ingests[c]))]
    /\ UNCHANGED <<neo4jConfigured, drivers, graph, overlap, agentVars, llmVars,
                   ingestVars, mergeVars, buildVars, normVars, heurVars>>

\* route.ts POST: catch (error) { await shutdownNeo4jDriver()... } begins.
RouteCatches(c) ==
    /\ ingests[c].pc = "thrown"
    /\ ingests[c].viaRoute
    /\ ingests' = [ingests EXCEPT ![c].pc = "routeShutdown"]
    /\ drivers' = IF cachedDriver # 0
                  THEN [drivers EXCEPT ![cachedDriver] = "closed"]
                  ELSE drivers
    /\ UNCHANGED <<neo4jConfigured, cachedDriver, graph, overlap, agentVars, llmVars,
                   ingestVars, mergeVars, buildVars, normVars, heurVars>>

\* The route's shutdown has resolved: cachedDriver = null, and the route
\* answers 500.
RouteResponds(c) ==
    /\ ingests[c].pc = "routeShutdown"
    /\ cachedDriver' = 0
    /\ ingests' = [ingests EXCEPT ![c].pc = "responded"]
    /\ UNCHANGED <<neo4jConfigured, drivers, graph, overlap, agentVars, llmVars,
                   ingestVars, mergeVars, buildVars, normVars, heurVars>>

NextPersist ==
    \E c \in Calls :
        \/ ResetIssued(c)
        \/ ResetResolves(c)
        \/ ResetRejects(c)
        \/ ResetSessionClosed(c)
        \/ WriteResolves(c)
        \/ WriteRejects(c)
        \/ WriteSessionClosed(c)
        \/ ShutdownResolves(c)
        \/ RouteCatches(c)
        \/ RouteResponds(c)

SpecPersist == InitPersist /\ [][NextPersist]_vars
SpecOverlap == InitOverlap /\ [][NextPersist]_vars

\* The event loop runs the async function on: every awaited tool promise of
\* the model settles (it resolves or rejects).
FairSpecAgent == SpecAgent /\ WF_vars(NextAgent)

----------------------------------------------------------------------------
(* Properties of executeAgent *)

\* The flag the plan gives the step of a history entry.
FlagOf(h) == opts.plan[h.index + 1].continueOnError
IdOf(h) == StepId(opts.label, h.index)
ToolFailed(h) == ~h.toolOk
StepFailed(h) == ~h.toolOk \/ h.reduced = "threw"
RecordsOf(h) == SelectSeq(steps, LAMBDA r : r.id = IdOf(h))
Returned == agentPc = "returned"

\* C1: a failing step whose continueOnError is false or unset ends the plan:
\* it is the last iteration (no later step's tool is invoked, no later record
\* is logged), the log ends with its error record, the state is the one
\* accumulated before it, and that state and log are what is returned; a step
\* whose tool failed has exactly one record.
C1_AbortSemantics ==
    \A k \in 1..Len(hist) :
        LET h == hist[k]
        IN  (StepFailed(h) /\ FlagOf(h) # Some(TRUE)) =>
              /\ k = Len(hist)
              /\ agentPc \in {"break", "returned"}
              /\ steps # <<>>
              /\ Last(steps).id = IdOf(h)
              /\ IsSome(Last(steps).error)
              /\ Last(steps).data = None
              /\ ToolFailed(h) => Len(RecordsOf(h)) = 1
              /\ state = h.before
              /\ (k = 1 /\ ToolFailed(h)) => (Len(steps) = 1 /\ state = opts.initialResult)
              /\ Returned => agentReturn = Some([result |-> h.before, steps |-> steps])

\* The plan [stepA(continueOnError = false, its tool throws), stepB] has
\* returned: one record, stepB (a registered tool) never ran.
C1_Witness ==
    /\ Returned
    /\ Len(opts.plan) = 2
    /\ opts.plan[1].tool \in opts.tools
    /\ opts.plan[1].continueOnError = Some(FALSE)
    /\ opts.plan[2].tool \in opts.tools
    /\ Len(hist) = 1
    /\ hist[1].invoked /\ ~hist[1].toolOk
    /\ Len(steps) = 1

\* C2: after a failing step whose continueOnError is true the loop goes on
\* with the next plan step; for [stepA(true, fails), stepB(succeeds)] the log
\* is <<error record of stepA, success record of stepB>> and the result is
\* reducer(initialResult, stepB's record).
C2_ContinueSemantics ==
    /\ \A k \in 1..Len(hist) :
          LET h == hist[k]
          IN  (StepFailed(h) /\ FlagOf(h) = Some(TRUE)) =>
                IF k < Len(hist)
                THEN hist[k + 1].index = h.index + 1
                ELSE /\ agentPc \in {"loop", "returned"}
                     /\ index = h.index + 1
                     /\ Returned => index = Len(opts.plan)
    /\ ( /\ Returned
         /\ Len(opts.plan) = 2
         /\ Len(hist) = 2
         /\ ToolFailed(hist[1]) /\ FlagOf(hist[1]) = Some(TRUE)
         /\ hist[2].reduced = "returned" )
       => /\ Len(steps) = 2
          /\ steps[1].id = StepId(opts.label, 0) /\ IsSome(steps[1].error)
          /\ steps[1].data = None
          /\ steps[2].id = StepId(opts.label, 1) /\ steps[2].error = None
          /\ IsSome(steps[2].output)
          /\ Get(agentReturn).steps = steps
          /\ Get(agentReturn).result = Append(opts.initialResult, steps[2].id)

\* [stepA(continueOnError = true, its tool throws), stepB(succeeds)] returned.
C2_Witness ==
    /\ Returned
    /\ Len(opts.plan) = 2
    /\ opts.plan[1].continueOnError = Some(TRUE)
    /\ Len(hist) = 2
    /\ hist[1].invoked /\ ~hist[1].toolOk
    /\ hist[2].toolOk /\ hist[2].reduced = "returned"
    /\ IsSome(steps[2].data)

IdsOf(records) == [i \in 1..Len(records) |-> records[i].id]

\* C3: the reducer is applied for exactly the steps whose tool succeeded; a
\* step whose tool threw or is not registered leaves the state as it was; the
\* state is the fold, in plan order, of the reducer over the records the
\* reducer accepted, which are all success records when the reducer never
\* throws.
C3_ReducerOnlyOnSuccess ==
    /\ \A k \in 1..Len(hist) :
          LET h == hist[k]
              after == IF k < Len(hist) THEN hist[k + 1].before ELSE state
          IN  /\ (h.reduced = "none") <=> ToolFailed(h)
              /\ ToolFailed(h) => after = h.before
              /\ h.reduced = "returned" => after = Append(h.before, IdOf(h))
    /\ LET accepted == SelectSeq(hist, LAMBDA h : h.reduced = "returned")
       IN  state = opts.initialResult \o [i \in 1..Len(accepted) |-> IdOf(accepted[i])]
    /\ (\A k \in 1..Len(hist) : hist[k].reduced # "threw") =>
          state = opts.initialResult \o IdsOf(SelectSeq(steps, LAMBDA r : r.error = None))
    /\ Returned => Get(agentReturn).result = state

\* A step succeeded and was folded, the next one names a missing tool.
C3_Witness ==
    /\ Returned
    /\ Len(hist) = 2
    /\ hist[1].reduced = "returned"
    /\ ~hist[2].invoked
    /\ state = Append(opts.initialResult, StepId(opts.label, 0))

\* C4: executeAgent never ends by throwing, and every call ends by returning
\* {result: state, steps}.
C4_AlwaysReturns ==
    /\ [](agentPc # "thrown")
    /\ [](Returned => agentReturn = Some([result |-> state, steps |-> steps]))
    /\ <>Returned

\* A tool threw a value that is neither an Error nor a string, on a step that
\* aborts the plan, and the call returned.
C4_Witness ==
    /\ Returned
    /\ Len(hist) >= 1
    /\ Last(hist).invoked /\ ~Last(hist).toolOk
    /\ Last(steps).error = Some("Unknown agent error")
    /\ FlagOf(Last(hist)) = None

----------------------------------------------------------------------------
(* Properties of mergeEdges *)

\* The dedup key of the specification: the 5-tuple itself.
TupleKey(edge) == <<edge.type, edge.from.label, edge.from.id, edge.to.label, edge.to.id>>
Merged == Get(mergeOut).edges
InputKeys == {TupleKey(e) : e \in SeqToSet(baseEdges) \cup SeqToSet(agentEdges)}
Survivors(key) == {i \in 1..Len(Merged) : TupleKey(Merged[i]) = key}

\* C7: the merged list holds no two edges with the same (type, from.label,
\* from.id, to.label, to.id), and every such key of the inputs appears in it
\* exactly once.
C7_DedupByTuple ==
    mergePc = "done" =>
        /\ \A i, j \in 1..Len(Merged) : TupleKey(Merged[i]) = TupleKey(Merged[j]) => i = j
        /\ \A key \in InputKeys : Cardinality(Survivors(key)) = 1

Provenances == {"base", "agent", "agent_heuristic", "agent_llm"}

\* C8: every merged edge has a provenance among "base", "agent",
\* "agent_heuristic", "agent_llm" and a boolean enriched; the edges added from
\* the base list (the first counts.base ones) have provenance "base" and
\* enriched false, none of them bringing a bag of its own; the edges added
\* from the agent list have enriched true and are the agentApplied list.
C8_ProvenanceAndEnriched ==
    mergePc = "done" =>
        LET out == Get(mergeOut)
        IN  /\ \A i \in 1..Len(out.edges) :
                  LET bag == BagOf(out.edges[i])
                  IN  /\ IsSome(out.edges[i].properties)
                      /\ "provenance" \in DOMAIN bag
                      /\ bag["provenance"] \in Provenances
                      /\ "enriched" \in DOMAIN bag
                      /\ bag["enriched"] \in BOOLEAN
                      /\ i <= out.counts.base =>
                            bag["provenance"] = "base" /\ bag["enriched"] = FALSE
                      /\ i > out.counts.base => bag["enriched"] = TRUE
            /\ Len(out.edges) = out.counts.base + out.counts.agent
            /\ out.agentApplied = SubSeq(out.edges, out.counts.base + 1, Len(out.edges))

\* A merge that added an edge from each list.
C8_Witness ==
    /\ mergePc = "done"
    /\ Get(mergeOut).counts.base >= 1
    /\ Get(mergeOut).counts.agent >= 1

----------------------------------------------------------------------------
(* Properties of ingestFindings and inferAgentRelationships *)

\* The running or finished executeAgent call is the enrichment run and has
\* returned to inferAgentRelationships.
EnrichmentReturned == opts.label = "graph-enrichment" /\ Returned
Inference == InferenceOf(Get(agentReturn))

\* The LLM tool was invoked and threw.
LlmThrew ==
    \E i \in 1..Len(hist) :
        /\ opts.plan[hist[i].index + 1].tool = LlmToolName
        /\ hist[i].invoked
        /\ ~hist[i].toolOk

\* A list of edges with every later edge of an already present key left out.
RECURSIVE FirstPerKey(_)
FirstPerKey(es) ==
    IF es = <<>> THEN <<>>
    ELSE LET r == FirstPerKey(Front(es))
         IN  IF \E j \in 1..(Len(es) - 1) : KeyOfEdge(es[j]) = KeyOfEdge(Last(es))
             THEN r
             ELSE Append(r, Last(es))

\* The log of a run whose first step is the heuristic step, succeeded, and
\* whose second and last step is the LLM step.
TwoStepLog(log) ==
    /\ Len(log) = 2
    /\ log[1].id = StepId("graph-enrichment", 0)
    /\ log[1].tool = HeuristicToolName
    /\ log[1].error = None
    /\ log[1].data = Some(heuristicSuggestions(findings))
    /\ log[2].id = StepId("graph-enrichment", 1)
    /\ log[2].tool = LlmToolName

\* C5: a second ingestFindings call with the batch of the first one returns
\* skipped = true, writes nothing more to the store, and the store holds the
\* IngestionRun the first call recorded.
C5_RerunIsSkipped ==
    (callNo >= 2 /\ findings # <<>> /\ IngestIdle) =>
        /\ ingestPc = "returned"
        /\ Get(ingestResult).skipped = TRUE
        /\ store.writes = runs[callNo].store.writes
        /\ store.runs # {}

\* C6: ingestFindings called with an empty batch throws "No findings provided
\* for ingestion" and has done nothing else: executeAgent was not entered and
\* no tool ran, no request was sent, and the store (resets, sessions, writes)
\* is as the call found it.
C6_EmptyBatchRejected ==
    (callNo >= 1 /\ findings = <<>>) =>
        /\ ingestPc = "thrown"
        /\ ingestResult = Some(ThrownError("No findings provided for ingestion"))
        /\ agentPc = "idle"
        /\ hist = <<>>
        /\ steps = <<>>
        /\ httpCalls = runs[callNo].httpCalls
        /\ store = runs[callNo].store

\* A call with an empty batch has ended.
C6_Witness == callNo >= 1 /\ findings = <<>> /\ ingestPc = "thrown"

----------------------------------------------------------------------------
(* Properties of buildGraphPayload *)

Built == Get(payload)
BuiltDone == buildPc = "done"
NodeIndexes(label, id) ==
    {n \in 1..Len(Built.nodes) : Built.nodes[n].label = label /\ Built.nodes[n].id = id}
HasEdge(type, from, to) ==
    \E n \in 1..Len(Built.edges) :
        /\ Built.edges[n].type = type
        /\ Built.edges[n].from = from
        /\ Built.edges[n].to = to

\* An optional string of the finding is present.
Present(o) == o # None /\ o # Some("")

\* The asset id the specification's priority gives a finding.
PriorityAssetId(f) ==
    CASE Present(f.asset.image) -> "image:" \o Get(f.asset.image)
      [] ~Present(f.asset.image) /\ Present(f.asset.url) -> Get(f.asset.url)
      [] ~Present(f.asset.image) /\ ~Present(f.asset.url) /\ Present(f.asset.path) ->
            "file:" \o Get(f.asset.path)
      [] OTHER -> f.asset.type \o ":" \o
                    (IF f.asset.service = None THEN "unknown" ELSE Get(f.asset.service))

\* C13: every finding of the batch is FOUND_ON exactly one Asset node, whose
\* id is image:<image> if the finding has an image, else its URL, else
\* file:<path>, else <asset type>:<service or "unknown">; so findings sharing
\* an image map to one Asset node whatever their URLs.
C13_AssetIdPriority ==
    BuiltDone =>
        /\ \A i \in 1..Len(buildInput) :
              LET f == buildInput[i]
              IN  /\ Cardinality(NodeIndexes("Asset", PriorityAssetId(f))) = 1
                  /\ HasEdge("FOUND_ON", Ref("Finding", f.finding_id),
                             Ref("Asset", PriorityAssetId(f)))
                  /\ \A n \in 1..Len(Built.edges) :
                        (Built.edges[n].type = "FOUND_ON"
                            /\ Built.edges[n].from.id = f.finding_id) =>
                        \E j \in 1..Len(buildInput) :
                            /\ buildInput[j].finding_id = f.finding_id
                            /\ Built.edges[n].to = Ref("Asset", PriorityAssetId(buildInput[j]))
        /\ \A i, j \in 1..Len(buildInput) :
              (Present(buildInput[i].asset.image)
                  /\ buildInput[i].asset.image = buildInput[j].asset.image) =>
              PriorityAssetId(buildInput[i]) = PriorityAssetId(buildInput[j])

\* A built batch of two findings that share an image and differ in URL.
C13_Witness ==
    /\ BuiltDone
    /\ \E i, j \in 1..Len(buildInput) :
          /\ Present(buildInput[i].asset.image)
          /\ buildInput[i].asset.image = buildInput[j].asset.image
          /\ Present(buildInput[i].asset.url)
          /\ Present(buildInput[j].asset.url)
          /\ buildInput[i].asset.url # buildInput[j].asset.url
    /\ Cardinality({n \in 1..Len(Built.nodes) : Built.nodes[n].label = "Asset"}) = 1

\* C14: in the payload buildGraphPayload returns, no two nodes have the same
\* (label, id), and the from and the to of every edge are the (label, id) of
\* a node of the payload.
C14_NodesUniqueEdgesAnchored ==
    BuiltDone =>
        /\ \A m, n \in 1..Len(Built.nodes) :
              (Built.nodes[m].label = Built.nodes[n].label
                  /\ Built.nodes[m].id = Built.nodes[n].id) => m = n
        /\ \A e \in 1..Len(Built.edges) :
              /\ NodeIndexes(Built.edges[e].from.label, Built.edges[e].from.id) # {}
              /\ NodeIndexes(Built.edges[e].to.label, Built.edges[e].to.id) # {}

\* A built batch whose two findings name the same scan, scanner or finding
\* id: ensureNode met an existing node.
C14_Witness ==
    /\ BuiltDone
    /\ Len(buildInput) = 2
    /\ \/ buildInput[1].scan_id = buildInput[2].scan_id
       \/ buildInput[1].finding_id = buildInput[2].finding_id
    /\ Built.edges # <<>>

\* C15: a finding without CVE, CWE and OWASP identifier and without package
\* gets a Vulnerability node whose id is a defined, non-empty string, its
\* REPORTS and AFFECTS edges reference that id, and the build makes no
\* ASSOCIATED_WITH edge for it.
C15_FallbackVulnerabilityId ==
    BuiltDone =>
        \A i \in 1..Len(buildInput) :
            LET f == buildInput[i]
                v == f.vulnerability
            IN  (v.cve_id = None /\ v.cwe_id = None /\ v.owasp_id = None /\ f.package = None) =>
                \E n \in 1..Len(Built.nodes) :
                    /\ Built.nodes[n].label = "Vulnerability"
                    /\ Built.nodes[n].id # Undefined
                    /\ Built.nodes[n].id # ""
                    /\ HasEdge("REPORTS", Ref("Finding", f.finding_id),
                               Ref("Vulnerability", Built.nodes[n].id))
                    /\ HasEdge("AFFECTS", Ref("Vulnerability", Built.nodes[n].id),
                               Ref("Asset", deriveAssetId(f)))
                    /\ \A e \in 1..Len(Built.edges) :
                          Built.edges[e].type = "ASSOCIATED_WITH" =>
                          Built.edges[e].to # Ref("Vulnerability", Built.nodes[n].id)

----------------------------------------------------------------------------
(* Properties of normalizeAgentEdges *)

\* The resolution of the specification, on (label, id) pairs: exact pair,
\* then label compared without case and the same id, then the id alone.
FirstRef(ns, S) == IF S = {} THEN None ELSE Some(RefOf(ns[FirstIndex(S)]))
ResolveByPairs(ns, endpoint) ==
    LET exact == {i \in 1..Len(ns) : ns[i].label = endpoint.label /\ ns[i].id = endpoint.id}
        lower == {i \in 1..Len(ns) :
                     /\ ToLowerCase(ns[i].label) = ToLowerCase(endpoint.label)
                     /\ ns[i].id = endpoint.id}
        any == {i \in 1..Len(ns) : ns[i].id = endpoint.id}
    IN  IF exact # {} THEN FirstRef(ns, exact)
        ELSE IF lower # {} THEN FirstRef(ns, lower)
        ELSE FirstRef(ns, any)

\* C11: each endpoint of a suggestion resolves to the first of: the node with
\* its exact (label, id), the node with its label up to case and its id, a
\* node with its id; the kept edge carries the label and id of that node, and
\* an endpoint none of the three matches resolves to nothing.
C11_ResolutionOrder ==
    normPc = "done" =>
        /\ \A i \in 1..Len(normEdges) :
              /\ resolveEndpoint(normNodes, normEdges[i].from)
                    = ResolveByPairs(normNodes, normEdges[i].from)
              /\ resolveEndpoint(normNodes, normEdges[i].to)
                    = ResolveByPairs(normNodes, normEdges[i].to)
        /\ \A k \in 1..Len(Get(normOut).edges) :
              \E i \in 1..Len(normEdges) :
                  /\ IsSome(ResolveByPairs(normNodes, normEdges[i].from))
                  /\ IsSome(ResolveByPairs(normNodes, normEdges[i].to))
                  /\ Get(normOut).edges[k] =
                        [normEdges[i] EXCEPT
                            !.from = Get(ResolveByPairs(normNodes, normEdges[i].from)),
                            !.to = Get(ResolveByPairs(normNodes, normEdges[i].to))]

----------------------------------------------------------------------------
(* Properties of ingestFindings: what a finished call hands to its caller *)

\* An ingestFindings call has ended, by return or by throw.
IngestEnded == callNo >= 1 /\ ingestPc \in {"returned", "thrown"}

\* The findings of the batch with the fields buildGraphPayload reads beside
\* those the enrichment reads.
AsFindingRecord(f) ==
    FindingRecord(f.finding_id, "zap", f.scan_id, "t0",
                  VulnerabilityOf(f.vulnerability.cve_id, Some("CWE-79"), Some("A03")),
                  AssetOf("api_endpoint", None, None, None, None, f.asset.service, None, None),
                  None)
BasePayload == buildGraphPayload([i \in 1..Len(findings) |-> AsFindingRecord(findings[i])])

\* What normalizeAgentEdges makes of the edges of the inference.
NormalizedInference == normalizeAgentEdges(Inference.edges, BasePayload.nodes)

\* C12: when the enrichment of a batch has produced suggestions of which
\* normalizeAgentEdges drops k > 0, the ingestFindings call does not fail: it
\* returns, with agentSuggestionsDropped = k.
C12_DropCountSurfaced ==
    (IngestEnded /\ EnrichmentReturned /\ NormalizedInference.dropped > 0) =>
        /\ ingestPc = "returned"
        /\ Get(ingestResult).agentSuggestionsDropped = Some(NormalizedInference.dropped)

\* C16: an ingestFindings call on a non-empty batch, no store call failing,
\* returns a result with skipped = false, findings = the batch size,
\* nodesCreated = the number of built nodes, relationshipsCreated = base
\* relationships + agent relationships, and agentRelationships holding as
\* many edges as provenance.agent.relationships.
C16_ReturnsIngestionResult ==
    (IngestEnded /\ findings # <<>>) =>
        /\ ingestPc = "returned"
        /\ Get(ingestResult).skipped = FALSE
        /\ Get(ingestResult).findings = Len(findings)
        /\ Get(ingestResult).nodesCreated = Len(BasePayload.nodes)
        /\ Get(ingestResult).relationshipsCreated =
              Get(ingestResult).provenance.base.relationships
                  + Get(ingestResult).provenance.agent.relationships
        /\ Len(Get(ingestResult).agentRelationships) =
              Get(ingestResult).provenance.agent.relationships

----------------------------------------------------------------------------
(* Properties of executeAgent: a plan step naming no registered tool *)

\* The plan step of a history entry names a tool the call has not got.
ToolMissing(h) == opts.plan[h.index + 1].tool \notin opts.tools

\* C17: a plan step whose tool is not registered is a recorded failure: no
\* tool is invoked and the reducer is not applied (the state stays), exactly
\* one record is appended for it, with the error "Tool <name> not registered"
\* and no data, and its continueOnError flag decides what follows: true, the
\* next plan step is taken; false or unset, the loop ends there.
C17_MissingToolIsRecordedFailure ==
    \A k \in 1..Len(hist) :
        LET h == hist[k]
            name == opts.plan[h.index + 1].tool
        IN  /\ ToolMissing(h) <=> ~h.invoked
            /\ ToolMissing(h) =>
                  /\ h.reduced = "none"
                  /\ RecordsOf(h) = << [id |-> IdOf(h), tool |-> name, output |-> None,
                                        data |-> None,
                                        error |-> Some("Tool " \o name \o " not registered")] >>
                  /\ IF k < Len(hist) THEN hist[k + 1].before = h.before
                                      ELSE state = h.before
                  /\ IF FlagOf(h) = Some(TRUE)
                     THEN IF k < Len(hist)
                          THEN hist[k + 1].index = h.index + 1
                          ELSE agentPc \in {"loop", "returned"} /\ index = h.index + 1
                     ELSE /\ k = Len(hist)
                          /\ agentPc \in {"break", "returned"}
                          /\ index = h.index
                          /\ Len(steps) >= 1
                          /\ steps[Len(steps)].id = IdOf(h)

\* A returned call whose plan named a missing tool with continueOnError true
\* and went on to a registered one.
C17_Witness ==
    /\ Returned
    /\ Len(hist) = 2
    /\ ToolMissing(hist[1])
    /\ FlagOf(hist[1]) = Some(TRUE)
    /\ hist[2].invoked

----------------------------------------------------------------------------
(* Properties of the LLM relationship tool *)

\* The summary llmTool.run returns for an answer without message content.
NoContentSummary == Summary("LLM returned no content for relationships.", 0)

\* C18: with base URL and API key set, the LLM step is recorded as a success
\* only when an edges array was parsed from the answer: an answer without
\* message content makes the tool throw, so no success record of the LLM tool
\* is the one of an answer without content.
C18_LlmRaisesWithoutEdges ==
    (opts.label = "graph-enrichment" /\ env.baseUrl /\ env.apiKey) =>
        \A i \in 1..Len(steps) :
            (steps[i].tool = LlmToolName /\ steps[i].error = None) =>
                steps[i].output # Some(NoContentSummary)

----------------------------------------------------------------------------
(* Properties of mergeEdges: duplicates and provenance tags *)

\* C19: when mergeEdges has kept a base edge and the agent list holds an edge
\* of the same key, the kept record carries the agent's markers: enriched is
\* true, its provenance is an agent provenance, and it has the agent edge's
\* rationale if that edge has one.
C19_AgentMarkersOnSurvivor ==
    mergePc = "done" =>
        \A i \in 1..Get(mergeOut).counts.base :
            \A k \in 1..Len(agentEdges) :
                TupleKey(agentEdges[k]) = TupleKey(Merged[i]) =>
                    /\ BagOf(Merged[i])["enriched"] = TRUE
                    /\ BagOf(Merged[i])["provenance"] \in Provenances \ {"base"}
                    /\ IsSome(agentEdges[k].rationale) =>
                          "rationale" \in DOMAIN BagOf(Merged[i])

\* C20: the provenance of a merged edge tells its origin: an edge added from
\* the agent list whose producing tool tagged it ("agent_heuristic",
\* "agent_llm" or a tag of the model) has that tag as its provenance after
\* the merge.
C20_ProvenanceTagKept ==
    mergePc = "done" =>
        \A n \in 1..Len(Get(mergeOut).agentApplied) :
            LET applied == Get(mergeOut).agentApplied[n]
            IN  \E k \in 1..Len(agentEdges) :
                    /\ TupleKey(agentEdges[k]) = TupleKey(applied)
                    /\ "provenance" \in DOMAIN BagOf(agentEdges[k]) =>
                          BagOf(applied)["provenance"] = BagOf(agentEdges[k])["provenance"]

----------------------------------------------------------------------------
(* Properties of the step log *)

\* C27: the step log of executeAgent holds at most one record per plan step:
\* the record ids are pairwise distinct, they appear in strictly increasing
\* plan order (so every record of the log belongs to a later plan step than
\* the record before it), and the log is never longer than the plan.
C27_OneRecordPerStep ==
    /\ Len(steps) <= Len(opts.plan)
    /\ \A i, j \in 1..Len(steps) : i < j => steps[i].id # steps[j].id
    /\ \A i \in 1..Len(steps) :
          \E k \in 0..(Len(opts.plan) - 1) :
              /\ steps[i].id = StepId(opts.label, k)
              /\ i > 1 => \E m \in 0..(k - 1) : steps[i - 1].id = StepId(opts.label, m)

----------------------------------------------------------------------------
(* Properties of the node merge of buildGraphPayload *)

\* The findings of the batch that ensure the node (label, id), in batch order:
\* only Asset nodes are given properties that differ between findings.
AssetOccurrences(id) ==
    SelectSeq(buildInput, LAMBDA f : deriveAssetId(f) = id)

\* The last value an occurrence supplied for an asset field, None if none did.
RECURSIVE LastSupplied(_, _)
LastSupplied(occurrences, field) ==
    IF occurrences = <<>> THEN None
    ELSE IF Last(occurrences).asset[field] # None
         THEN Last(occurrences).asset[field]
         ELSE LastSupplied(Front(occurrences), field)

AssetFields == {"url", "path", "image", "registry", "service", "cluster"}

\* C24: a node met more than once holds, for each property key, the most
\* recent non-missing value: an Asset node built from several findings has,
\* for each of url, path, image, registry, service and cluster, the value of
\* the last finding that supplied one, so a later finding that lacks the field
\* does not erase the value of an earlier one.
C24_MostRecentNonMissing ==
    BuiltDone =>
        \A n \in 1..Len(Built.nodes) :
            Built.nodes[n].label = "Asset" =>
                \A field \in AssetFields :
                    Built.nodes[n].properties[field]
                        = LastSupplied(AssetOccurrences(Built.nodes[n].id), field)

----------------------------------------------------------------------------
(* Properties of heuristicSuggestions *)

HeuristicsDone == heurPc = "done"

\* The suggestions of one type that carry value v for property key.
SuggestionsOf(type, key, v) ==
    SelectSeq(heurOut, LAMBDA e : e.type = type /\ BagOf(e)[key] = v)

\* The positions of the batch whose finding is of scan s, has service v, CVE v.
InScan(s) == {i \in 1..Len(heurInput) : heurInput[i].scan_id = s}
WithService(v) == {i \in 1..Len(heurInput) : heurInput[i].asset.service = Some(v)}
WithCve(v) == {i \in 1..Len(heurInput) : heurInput[i].vulnerability.cve_id = Some(v)}

\* An edge between two findings, tagged by the heuristic tool, with a rationale.
HeuristicTagged(e) ==
    /\ e.from.label = "Finding" /\ e.to.label = "Finding"
    /\ BagOf(e)["agent_source"] = "heuristic"
    /\ IsSome(e.rationale) /\ Get(e.rationale) # ""

\* es is a chain over the findings at positions group, sorted by timestamp
\* ascending: k - 1 edges, each from a finding to the next later one.  exact:
\* delta_minutes times one minute is the difference of the two timestamps;
\* otherwise delta_minutes is the whole number of minutes nearest to it.
ChainOver(es, group, exact) ==
    LET k == Cardinality(group)
    IN  /\ Len(es) = k - 1
        /\ \E order \in [1..k -> group] :
              /\ \A i, j \in 1..k : i # j => order[i] # order[j]
              /\ \A i \in 1..(k - 1) :
                    LET a == heurInput[order[i]]
                        b == heurInput[order[i + 1]]
                        diff == GetTime(b.timestamp) - GetTime(a.timestamp)
                        dm == BagOf(es[i])["delta_minutes"]
                    IN  /\ diff >= 0
                        /\ es[i].from = Ref("Finding", a.finding_id)
                        /\ es[i].to = Ref("Finding", b.finding_id)
                        /\ dm >= 0
                        /\ IF exact THEN dm * 60000 = diff
                           ELSE 60000 * dm - 30000 <= diff /\ diff < 60000 * dm + 30000

\* Every scan id of the batch has its chain, and no other CO_OCCURS edge is
\* emitted.
CoOccursChains(exact) ==
    HeuristicsDone =>
        /\ \A i \in 1..Len(heurInput) :
              ChainOver(SuggestionsOf("CO_OCCURS", "scan_id", heurInput[i].scan_id),
                        InScan(heurInput[i].scan_id), exact)
        /\ \A n \in 1..Len(heurOut) :
              heurOut[n].type = "CO_OCCURS" =>
                  /\ HeuristicTagged(heurOut[n])
                  /\ InScan(BagOf(heurOut[n])["scan_id"]) # {}

\* C25 as stated: for each scan id shared by k >= 2 findings exactly k - 1
\* CO_OCCURS edges are emitted, a chain over the group sorted by timestamp
\* ascending, each carrying delta_minutes equal to the non-negative timestamp
\* difference in minutes; a group of one finding emits none.
C25_CoOccursExactMinutes == CoOccursChains(TRUE)

\* C25: for each scan id shared by k >= 2 findings exactly k - 1 CO_OCCURS
\* edges are emitted, a chain over the group sorted by timestamp ascending,
\* each carrying as delta_minutes the non-negative timestamp difference
\* rounded to the nearest whole minute; a group of one finding emits none.
C25_CoOccursRoundedMinutes == CoOccursChains(FALSE)

\* Two findings of scan-1 with the same CVE, found 10 minutes apart, gave one
\* CO_OCCURS edge with delta_minutes = 10.
C25_Witness ==
    /\ HeuristicsDone
    /\ Len(heurInput) = 2
    /\ heurInput[1].scan_id = "scan-1" /\ heurInput[2].scan_id = "scan-1"
    /\ heurInput[1].vulnerability.cve_id = heurInput[2].vulnerability.cve_id
    /\ IsSome(heurInput[1].vulnerability.cve_id)
    /\ GetTime(heurInput[1].timestamp) - GetTime(heurInput[2].timestamp) = 10 * 60000
    /\ Len(SelectSeq(heurOut, LAMBDA e : e.type = "CO_OCCURS")) = 1
    /\ \E n \in 1..Len(heurOut) :
          /\ heurOut[n].type = "CO_OCCURS"
          /\ heurOut[n].from = Ref("Finding", heurInput[2].finding_id)
          /\ BagOf(heurOut[n])["delta_minutes"] = 10

\* es holds one edge per pair of positions i < j of group, from the finding
\* at i to the finding at j: for any two finding ids there are as many edges
\* from the one to the other as there are such pairs of positions.
OnePerPair(es, group) ==
    /\ 2 * Len(es) = Cardinality(group) * (Cardinality(group) - 1)
    /\ \A i, j \in group :
          LET a == heurInput[i].finding_id
              b == heurInput[j].finding_id
          IN  Cardinality({n \in 1..Len(es) :
                              es[n].from = Ref("Finding", a) /\ es[n].to = Ref("Finding", b)})
                = Cardinality({pr \in group \X group :
                                  /\ pr[1] < pr[2]
                                  /\ heurInput[pr[1]].finding_id = a
                                  /\ heurInput[pr[2]].finding_id = b})

\* C26: for every pair of findings at different positions of the batch that
\* share a non-empty asset.service (a CVE id), one SHARED_SERVICE (SHARED_CVE)
\* edge is emitted, from the earlier finding of the batch to the later one,
\* carrying the shared value, agent_source "heuristic" and a rationale: k
\* findings of one value give k(k-1)/2 edges, and no edge of these types is
\* emitted for a finding without service (without CVE).
C26_SharedPairs ==
    HeuristicsDone =>
        /\ \A i \in 1..Len(heurInput) :
              LET service == heurInput[i].asset.service
                  cve == heurInput[i].vulnerability.cve_id
              IN  /\ TruthyString(service) =>
                        OnePerPair(SuggestionsOf("SHARED_SERVICE", "service", Get(service)),
                                   WithService(Get(service)))
                  /\ TruthyString(cve) =>
                        OnePerPair(SuggestionsOf("SHARED_CVE", "cve", Get(cve)),
                                   WithCve(Get(cve)))
        /\ \A n \in 1..Len(heurOut) :
              LET e == heurOut[n]
              IN  /\ e.type = "SHARED_SERVICE" =>
                        /\ HeuristicTagged(e)
                        /\ BagOf(e)["service"] # ""
                        /\ WithService(BagOf(e)["service"]) # {}
                  /\ e.type = "SHARED_CVE" =>
                        /\ HeuristicTagged(e)
                        /\ BagOf(e)["cve"] # ""
                        /\ WithCve(BagOf(e)["cve"]) # {}

\* Three findings of one service, one of them without CVE, gave three
\* SHARED_SERVICE edges and no SHARED_CVE edge for the finding without CVE.
C26_Witness ==
    /\ HeuristicsDone
    /\ Len(heurInput) = 3
    /\ \A i \in 1..3 : heurInput[i].asset.service = Some("api")
    /\ heurInput[1].finding_id # heurInput[2].finding_id
    /\ heurInput[3].vulnerability.cve_id # heurInput[1].vulnerability.cve_id
    /\ Len(SelectSeq(heurOut, LAMBDA e : e.type = "SHARED_SERVICE")) = 3
    /\ Len(SelectSeq(heurOut, LAMBDA e : e.type = "SHARED_CVE")) <= 1

----------------------------------------------------------------------------
(* Properties of the persistence phase and of the neo4j client *)

\* ingestFindings has returned control to its caller, by return or by throw.
ReturnedControl(c) == ingests[c].pc \in {"returned", "thrown"}
\* The call failed in a write of the second session.
WriteFailed(c) == IsSome(ingests[c].error) /\ IsSome(ingests[c].merged)

WrittenBefore(c) == SubSeq(ingests[c].writes, 1, ingests[c].pos - 1)
\* The query a call issued last is the write at its position.
LastIssuedIsCurrent(c) ==
    LET call == ingests[c]
    IN  /\ Len(call.log) = call.pos + 1
        /\ call.log[Len(call.log)].kind = call.writes[call.pos].kind
        /\ call.log[Len(call.log)].key = call.writes[call.pos].key

NodeWrites(c) == {k \in 1..Len(ingests[c].writes) : ingests[c].writes[k].kind = "node"}
EdgeWrites(c) == {k \in 1..Len(ingests[c].writes) : ingests[c].writes[k].kind = "edge"}
\* The writes of a call that hold a node of the payload, or a merged edge.
BatchesOfNode(c, node) ==
    {k \in NodeWrites(c) :
        /\ ingests[c].writes[k].key = node.label
        /\ \E i \in 1..Len(ingests[c].writes[k].items) :
              ingests[c].writes[k].items[i].id = node.id}
BatchesOfEdge(c, edge) ==
    {k \in EdgeWrites(c) :
        /\ ingests[c].writes[k].key = GroupKey(edge)
        /\ \E i \in 1..Len(ingests[c].writes[k].items) :
              /\ ingests[c].writes[k].items[i].fromId = edge.from.id
              /\ ingests[c].writes[k].items[i].toId = edge.to.id}
\* The number of items of a set of writes.
RECURSIVE ItemCount(_, _)
ItemCount(c, ks) ==
    IF ks = {} THEN 0
    ELSE LET k == CHOOSE x \in ks : TRUE
         IN  Len(ingests[c].writes[k].items) + ItemCount(c, ks \ {k})
\* The call has grouped its writes.
Grouped(c) == IsSome(ingests[c].merged)

StoredNode(node) ==
    [label |-> node.label, id |-> node.id, props |-> withoutUndefined(node.properties)]
StoredEdge(edge) ==
    [type |-> edge.type, from |-> edge.from, to |-> edge.to,
     props |-> OrElse(edge.properties, EmptyBag)]
\* The call ended by a throw of its first session: no configuration, or a
\* rejected delete.
FailedBeforeWrites(c) ==
    /\ ingests[c].pc \in {"thrown", "routeShutdown", "responded"}
    /\ ~Grouped(c)

PayloadNode(c, ref) ==
    \E n \in 1..Len(Get(ingests[c].basePayload).nodes) :
        /\ Get(ingests[c].basePayload).nodes[n].label = ref.label
        /\ Get(ingests[c].basePayload).nodes[n].id = ref.id
\* The merged edges of a call that its resolved writes carried.
EdgesWritten(c) ==
    {n \in 1..Len(Get(ingests[c].merged).edges) :
        \E k \in EdgeWrites(c) :
            /\ k < ingests[c].pos \/ ingests[c].pc \in {"writeClose", "shutdown", "returned"}
            /\ ingests[c].writes[k].key = GroupKey(Get(ingests[c].merged).edges[n])}

QueryPending(c) == ingests[c].pc \in {"resetRun", "writeRun"}

====
